---- MODULE Spec2Model ----
(***************************************************************************)
(* Model of the Trading-Automation signal pipeline: the run orchestrator   *)
(* (src/src/pipeline.py), the universe scorer and watchlist builder        *)
(* (src/src/stock_universe.py), the heartbeat throttle                     *)
(* (src/src/utils/telegram_alert.py, src/utils/telegram_alert.py), the     *)
(* position tracker (src/src/pnl_tracker.py), the trade log writer         *)
(* (src/src/helpers.py), the HTTP trigger (src/src/server.py), strategy    *)
(* discovery (src/src/run_strategies.py) and the strategy modules          *)
(* (src/strategies).                                                       *)
(*                                                                         *)
(* Prices are integers in hundredths of a rupee (two decimals, as the code *)
(* rounds them); confidences are integers in hundredths (0.30 is 30).      *)
(* A Python dict is a function from field names to values, so a missing    *)
(* key is a name outside its DOMAIN.                                       *)
(***************************************************************************)
EXTENDS Integers, Sequences, FiniteSets, TLC

VARIABLES
    pc,           \* position of the run() invocation
    dryRun,       \* the dry_run argument of run()
    startDay,     \* weekday at which run() was invoked (0 = Monday)
    nowMin,       \* minute of the day last read from the IST clock
    watchlist,    \* the list build_watchlist returned to run()
    symIdx,       \* index in watchlist of the symbol being processed
    stratIdx,     \* index of the next strategy for that symbol (0: data not fetched yet)
    behaviour,    \* per processed symbol, what each strategy does on its data
    signals,      \* the list `signals` of run()
    invoked,      \* (symbol index, strategy index) pairs whose generate_signal was called
    acceptedFrom, \* pairs whose signal was appended to `signals`
    snapshot,     \* content of output/live_signals.json
    tradeLog,     \* rows of output/trade_log.csv
    wlFile,       \* content of output/final_watchlist.json
    sheetRows,    \* rows appended to the spreadsheet channel
    chatMsgs,     \* messages delivered to the chat channel
    faultLog,     \* faults that were caught and printed
    trace,        \* phases the invocation has entered, in order
    outcome,      \* how the invocation ended
    result,       \* the value run() returned
    uCore,        \* scorer: configured core list
    uPool,        \* scorer: pool_tickers argument
    uData,        \* scorer: per symbol, what the data provider returns
    uTopN,        \* scorer: top_n argument
    uDynamic,     \* scorer: value returned by get_dynamic_tickers
    uFinal,       \* scorer: value returned by build_watchlist
    uPc,          \* scorer: which call has been made
    hbVariant,    \* which of the two telegram_alert modules is in use
    hbFile,       \* content of the heartbeat sentinel file
    hbClock,      \* wall clock in seconds
    hbSent,       \* times at which a heartbeat was sent, oldest first
    hbLast,       \* answer and time of the latest heartbeat request
    trRow,        \* tracker: the tracked row of the sheet (columns B-F and J-L)
    trHist,       \* tracker: what each pass of evaluate() reported, oldest first
    trEod,        \* tracker: what evaluate_pnl of the pipeline reported for the row
    csvFile,      \* trade log: the CSV file (header and rows) or its absence
    csvWritten,   \* trade log: every row handed to append_csv, oldest first
    srvThreads,   \* server: position of the run() thread of each /run request
    srvWriter,    \* server: the thread that last wrote the output files (0: none)
    stView,       \* strategies: the MultiTimeframeView handed to generate_signal
    stCall,       \* strategies: the module called on it and what it did
    ldDir,        \* discovery: the modules of the strategies directory
    ldResult,     \* discovery: what load_strategy_modules and get_required_indicators gave
    cwThreads     \* trade log: the append_csv call of each of two concurrent runs

runVars == <<pc, dryRun, startDay, nowMin, watchlist, symIdx, stratIdx, behaviour,
             signals, invoked, acceptedFrom, snapshot, tradeLog, wlFile, sheetRows,
             chatMsgs, faultLog, trace, outcome, result>>
uVars == <<uCore, uPool, uData, uTopN, uDynamic, uFinal, uPc>>
hbVars == <<hbVariant, hbFile, hbClock, hbSent, hbLast>>
trVars == <<trRow, trHist, trEod>>
csvVars == <<csvFile, csvWritten>>
srvVars == <<srvThreads, srvWriter>>
stVars == <<stView, stCall>>
ldVars == <<ldDir, ldResult>>
cwVars == <<cwThreads>>
extVars == <<stVars, ldVars, cwVars>>
auxVars == <<trVars, csvVars, srvVars, extVars>>
vars == <<runVars, uVars, hbVars, auxVars>>

(***************************************************************************)
(* Python dict and list helpers                                            *)
(***************************************************************************)
Get(d, k, default) == IF k \in DOMAIN d THEN d[k] ELSE default

Put(d, k, v) == [x \in (DOMAIN d) \cup {k} |-> IF x = k THEN v ELSE d[x]]

SetDefault(d, k, v) == IF k \in DOMAIN d THEN d ELSE Put(d, k, v)

Range(s) == {s[n] : n \in 1..Len(s)}

BoundedSeq(S, n) == UNION {[1..m -> S] : m \in 0..n}

Take(s, n) == SubSeq(s, 1, IF n < Len(s) THEN n ELSE Len(s))

RECURSIVE Dedup(_)
Dedup(s) ==
    IF s = <<>> THEN <<>>
    ELSE LET front == Dedup(SubSeq(s, 1, Len(s) - 1))
             last == s[Len(s)]
         IN IF last \in Range(front) THEN front ELSE Append(front, last)

\* round(x * permille / 1000, 2) on a price held in hundredths
RoundScaled(x, permille) == (x * permille + 500) \div 1000

\* sorted(s, key=lambda x: x[k], reverse=True): descending and stable
InsertDesc(sorted, x, k) ==
    LET before == {n \in 1..Len(sorted) : sorted[n][k] >= x[k]}
        cut == IF before = {} THEN 0 ELSE CHOOSE n \in before : \A m \in before : m <= n
    IN SubSeq(sorted, 1, cut) \o <<x>> \o SubSeq(sorted, cut + 1, Len(sorted))

RECURSIVE SortDescBy(_, _)
SortDescBy(s, k) ==
    IF s = <<>> THEN <<>>
    ELSE InsertDesc(SortDescBy(SubSeq(s, 1, Len(s) - 1), k), s[Len(s)], k)

(***************************************************************************)
(* Universe scorer and watchlist: src/src/stock_universe.py                *)
(***************************************************************************)
Symbols == {"AAA", "BBB", "CCC"}

MaxCore == 2
MaxPool == 2
MaxTopN == 2

\* DEFAULT_POOL, what load_pool() gives when no pool file is configured
DefaultPool == <<"AAA", "BBB">>

\* get_dynamic_tickers defaults, in tenths: vol_multiplier=1.5, price_move_pct=3.0
VolMultiplier10 == 15
PriceMovePct10 == 30
MinRows == 10
DefaultTopN == 8

\* What yf.download gives for one ticker, reduced to what the scorer derives
\* from the bars: rows left after dropna, volume ratio and day move in tenths,
\* and the 52-week proximity test.
Profiles == {
    [kind |-> "error"],
    [kind |-> "empty"],
    [kind |-> "bars", rows |-> 40, vr10 |-> 10, move10 |-> 5, prox |-> FALSE],
    [kind |-> "bars", rows |-> 40, vr10 |-> 10, move10 |-> 0, prox |-> TRUE],
    [kind |-> "bars", rows |-> 40, vr10 |-> 20, move10 |-> 0 - 40, prox |-> FALSE] }

Abs(x) == IF x < 0 THEN 0 - x ELSE x

\* score of one ticker, times 30 (so that /price_move_pct and +0.8 stay integers)
Score(p) ==
    (IF p.vr10 >= VolMultiplier10 THEN (p.vr10 - VolMultiplier10) * 6 + 30 ELSE 0)
    + (IF Abs(p.move10) >= PriceMovePct10
         THEN (Abs(p.move10) * 30) \div PriceMovePct10 ELSE 0)
    + (IF p.prox THEN 24 ELSE 0)

\* the body of the scan loop: does ticker t get an entry in `scored`
Scored(p) == p.kind = "bars" /\ p.rows >= MinRows /\ Score(p) > 0

RECURSIVE ScanPool(_, _)
ScanPool(pool, data) ==
    IF pool = <<>> THEN <<>>
    ELSE LET rest == ScanPool(SubSeq(pool, 1, Len(pool) - 1), data)
             t == pool[Len(pool)]
         IN IF Scored(data[t])
              THEN Append(rest, [ticker |-> t, score |-> Score(data[t])])
              ELSE rest

\* load_pool() where no pool file is configured
LoadPool == DefaultPool

\* the pool_tickers argument: None, or a list
NoPool == [given |-> FALSE, list |-> <<>>]

PoolArgs(S, n) == {NoPool} \cup {[given |-> TRUE, list |-> l] : l \in BoundedSeq(S, n)}

\* line 82: pool_tickers or load_pool(); None and the empty list are both falsy
PoolInEffect(poolArg) ==
    IF poolArg.given /\ poolArg.list # <<>> THEN poolArg.list ELSE LoadPool

\* the first top_n entries taken in scan order, without the sort
GetDynamicTickersUnsorted(poolArg, topN, data) ==
    LET top == Take(ScanPool(PoolInEffect(poolArg), data), topN)
    IN [n \in 1..Len(top) |-> top[n].ticker]

\* lines 82-159: scan, sort by score descending, take top_n
GetDynamicTickers(poolArg, topN, data) ==
    LET scored == SortDescBy(ScanPool(PoolInEffect(poolArg), data), "score")
        top == Take(scored, topN)
    IN [n \in 1..Len(top) |-> top[n].ticker]

\* the union taken with the picks ahead of the core list
BuildWatchlistPicksFirst(core, poolArg, topN, data) ==
    Dedup(GetDynamicTickers(poolArg, topN, data) \o core)

BuildWatchlist(core, poolArg, topN, data) ==
    Dedup(core \o GetDynamicTickers(poolArg, topN, data))

(***************************************************************************)
(* Run orchestrator: src/src/pipeline.py                                   *)
(***************************************************************************)
\* symbols the configured core list and pool of a run are drawn from
RunSymbols == {"AAA", "BBB"}

\* load_strategy_modules(): (name, module) pairs; a module may carry STRATEGY_TYPE
StrategyMods == <<[name |-> "stratX", STRATEGY_TYPE |-> "intraday"],
                  [name |-> "stratY"]>>

NumStrategies == Len(StrategyMods)

\* the confidence floor of run(), 0.3
ConfidenceFloor == 30
\* min_confidence=0.8 and limit=3 of the high-confidence alert
HighConfidence == 80
AlertLimit == 3
\* 09:15 and 15:30 as minutes of the day
MarketOpenMin == 555
MarketCloseMin == 930

Weekdays == {4, 5, 6}
ClockMins == {554, 555, 930, 931}
\* a later reading of the clock within the same invocation: no minute has
\* passed, or the 15:30 mark has been reached
ClockAfter(minute) == {m \in {minute, MarketCloseMin} : m >= minute}

\* what generate_signal(t, mdf) of one module can do; the Stock field is added
\* from the ticker it is called with
Outcomes == {
    [kind |-> "none"],
    [kind |-> "raise"],
    [kind |-> "signal",
     sig |-> [Side |-> "BUY", Entry |-> 10000, Target |-> 10500, StopLoss |-> 9800,
              Confidence |-> 95, Strategy |-> "test_strategy",
              StrategyType |-> "intraday"]],
    [kind |-> "signal",
     sig |-> [Side |-> "BUY", Entry |-> 10000, Confidence |-> 30]],
    [kind |-> "signal",
     sig |-> [Side |-> "SELL", Entry |-> 10000, Confidence |-> 85]],
    [kind |-> "signal",
     sig |-> [Side |-> "SELL", Entry |-> 10000, Target |-> 9500, StopLoss |-> 10200,
              Confidence |-> 29, Strategy |-> "macd_crossover"]],
    [kind |-> "signal",
     sig |-> [Side |-> "BUY", Entry |-> 10000, Target |-> 10000, StopLoss |-> 10000,
              Confidence |-> 60, Strategy |-> "macd_crossover"]] }

\* what was in the output files before this invocation: one earlier signal
OldSignal == [Stock |-> "OLD", Side |-> "BUY", Entry |-> 5000, Target |-> 5100,
              StopLoss |-> 4900, Confidence |-> 70, Strategy |-> "stratX",
              StrategyType |-> "daily", Timestamp |-> 600]

\* the gate without the weekday test
IsMarketOpenAnyDay(day, minute) ==
    MarketOpenMin <= minute /\ minute <= MarketCloseMin

\* lines 34-36: is_market_open()
IsMarketOpen(day, minute) ==
    day < 5 /\ MarketOpenMin <= minute /\ minute <= MarketCloseMin

\* lines 183-187 of run(): defaults and stamps laid over the strategy's dict
Overlay(sig, mod, ts) ==
    LET s1 == Put(sig, "Strategy", Get(sig, "Strategy", mod.name))
        s2 == SetDefault(s1, "StrategyType", Get(mod, "STRATEGY_TYPE", "daily"))
        s3 == SetDefault(s2, "StopLoss", RoundScaled(s2["Entry"], 985))
        s4 == SetDefault(s3, "Target", RoundScaled(s3["Entry"], 1015))
    IN Put(s4, "Timestamp", ts)

\* the low-confidence test with the boundary on the wrong side
BelowFloorStrict(sig) == Get(sig, "Confidence", 0) <= ConfidenceFloor

\* line 190: the low-confidence test
BelowFloor(sig) == Get(sig, "Confidence", 0) < ConfidenceFloor

\* src/src/run_strategies.py, evaluate_for_ticker(ticker, multi_df, confidence_threshold):
\* every module is called inside its own try; plan[k] is what module k does
DefaultThreshold == 60

RECURSIVE EvaluateForTicker(_, _, _)
EvaluateForTicker(ticker, plan, threshold) ==
    IF plan = <<>> THEN <<>>
    ELSE LET k == Len(plan)
             rest == EvaluateForTicker(ticker, SubSeq(plan, 1, k - 1), threshold)
             o == plan[k]
             sig == LET s0 == Put(o.sig, "Stock", ticker)
                    IN Put(s0, "Strategy", Get(s0, "Strategy", StrategyMods[k].name))
         IN IF o.kind = "signal" /\ Get(sig, "Confidence", 0) >= threshold
              THEN Append(rest, sig)
              ELSE rest

\* the first `limit` qualifying signals in list order, without the sort
HighConfSelectUnsorted(sigs, minConfidence, limit) ==
    Take(SelectSeq(sigs, LAMBDA x : Get(x, "Confidence", 0) >= minConfidence), limit)

\* line 68 and 74: the signals put in the high-confidence alert
HighConfSelect(sigs, minConfidence, limit) ==
    LET high == SelectSeq(sigs, LAMBDA x : Get(x, "Confidence", 0) >= minConfidence)
    IN Take(SortDescBy(high, "Confidence"), limit)

RunInit ==
    /\ pc = "idle"
    /\ dryRun = FALSE
    /\ startDay = 0
    /\ nowMin = 0
    /\ watchlist = <<>>
    /\ symIdx = 0
    /\ stratIdx = 0
    /\ behaviour = <<>>
    /\ signals = <<>>
    /\ invoked = {}
    /\ acceptedFrom = {}
    /\ snapshot = <<OldSignal>>
    /\ tradeLog = <<OldSignal>>
    /\ wlFile = <<"OLD">>
    /\ sheetRows = <<>>
    /\ chatMsgs = <<>>
    /\ faultLog = <<>>
    /\ trace = <<>>
    /\ outcome = "none"
    /\ result = <<>>

\* run(), lines 165-167: the trading-hours gate closes the invocation
RunClosed ==
    /\ pc = "idle"
    /\ \E dry \in BOOLEAN, day \in Weekdays, minute \in ClockMins :
          /\ ~IsMarketOpen(day, minute)
          /\ dryRun' = dry
          /\ startDay' = day
          /\ nowMin' = minute
    /\ pc' = "done"
    /\ trace' = <<"CLOSED">>
    /\ outcome' = "closed"
    /\ result' = <<>>
    /\ UNCHANGED <<watchlist, symIdx, stratIdx, behaviour, signals, invoked,
                   acceptedFrom, snapshot, tradeLog, wlFile, sheetRows, chatMsgs,
                   faultLog>>

\* run(), lines 165-173: gate passed, strategies loaded, watchlist built and saved
RunOpen ==
    /\ pc = "idle"
    /\ \E dry \in BOOLEAN, day \in Weekdays, minute \in ClockMins :
          /\ IsMarketOpen(day, minute)
          /\ dryRun' = dry
          /\ startDay' = day
          /\ nowMin' = minute
    /\ \E core \in BoundedSeq(RunSymbols, MaxCore),
          poolArg \in PoolArgs(RunSymbols, MaxPool),
          data \in [RunSymbols -> Profiles] :
          watchlist' = BuildWatchlist(core, poolArg, DefaultTopN, data)
    /\ \E written \in BOOLEAN :
          wlFile' = IF written THEN watchlist' ELSE wlFile
    /\ pc' = "eval"
    /\ symIdx' = 1
    /\ stratIdx' = 0
    /\ trace' = <<"RUNNING">>
    /\ UNCHANGED <<behaviour, signals, invoked, acceptedFrom, snapshot, tradeLog,
                   sheetRows, chatMsgs, faultLog, outcome, result>>

\* line 177: the data of the next symbol is fetched; it fixes what every
\* strategy will do when called on it
FetchData ==
    /\ pc = "eval"
    /\ symIdx <= Len(watchlist)
    /\ stratIdx = 0
    /\ \E plan \in [1..NumStrategies -> Outcomes] :
          behaviour' = Append(behaviour, plan)
    /\ stratIdx' = 1
    /\ UNCHANGED <<pc, dryRun, startDay, nowMin, watchlist, symIdx, signals, invoked,
                   acceptedFrom, snapshot, tradeLog, wlFile, sheetRows, chatMsgs,
                   faultLog, trace, outcome, result>>

\* lines 178-195: one pass of the inner loop
InvokeStrategy ==
    /\ pc = "eval"
    /\ symIdx <= Len(watchlist)
    /\ stratIdx \in 1..NumStrategies
    /\ invoked' = invoked \cup {<<symIdx, stratIdx>>}
    /\ LET o == behaviour[symIdx][stratIdx]
           mod == StrategyMods[stratIdx]
           sig == Overlay(Put(o.sig, "Stock", watchlist[symIdx]), mod, nowMin)
           last == stratIdx = NumStrategies
       IN IF o.kind = "raise"
            THEN /\ faultLog' = Append(faultLog, "symbol")
                 /\ symIdx' = symIdx + 1
                 /\ stratIdx' = 0
                 /\ UNCHANGED <<signals, acceptedFrom>>
            ELSE /\ symIdx' = IF last THEN symIdx + 1 ELSE symIdx
                 /\ stratIdx' = IF last THEN 0 ELSE stratIdx + 1
                 /\ faultLog' = faultLog
                 /\ IF o.kind = "signal" /\ ~BelowFloor(sig)
                      THEN /\ signals' = Append(signals, sig)
                           /\ acceptedFrom' = acceptedFrom \cup {<<symIdx, stratIdx>>}
                      ELSE UNCHANGED <<signals, acceptedFrom>>
    /\ UNCHANGED <<pc, dryRun, startDay, nowMin, watchlist, behaviour, snapshot,
                   tradeLog, wlFile, sheetRows, chatMsgs, trace, outcome, result>>

\* the process is interrupted while the loop runs: KeyboardInterrupt and
\* SystemExit are not Exceptions, so line 194 does not catch them
Cancel ==
    /\ pc = "eval"
    /\ pc' = "done"
    /\ outcome' = "cancelled"
    /\ UNCHANGED <<dryRun, startDay, nowMin, watchlist, symIdx, stratIdx, behaviour,
                   signals, invoked, acceptedFrom, snapshot, tradeLog, wlFile,
                   sheetRows, chatMsgs, faultLog, trace, result>>

\* lines 197-199: the loop is over
EndEval ==
    /\ pc = "eval"
    /\ symIdx > Len(watchlist)
    /\ IF signals = <<>>
         THEN /\ pc' = "done"
              /\ outcome' = "ok"
              /\ result' = <<>>
         ELSE /\ pc' = "save_json"
              /\ UNCHANGED <<outcome, result>>
    /\ UNCHANGED <<dryRun, startDay, nowMin, watchlist, symIdx, stratIdx, behaviour,
                   signals, invoked, acceptedFrom, snapshot, tradeLog, wlFile,
                   sheetRows, chatMsgs, faultLog, trace>>

\* line 201: save_json(signals, "output/live_signals.json"); an OSError leaves run()
SaveJson ==
    /\ pc = "save_json"
    /\ \E ok \in BOOLEAN :
          IF ok
            THEN /\ snapshot' = signals
                 /\ pc' = "append_csv"
                 /\ UNCHANGED outcome
            ELSE /\ pc' = "done"
                 /\ outcome' = "failed"
                 /\ UNCHANGED snapshot
    /\ UNCHANGED <<dryRun, startDay, nowMin, watchlist, symIdx, stratIdx, behaviour,
                   signals, invoked, acceptedFrom, tradeLog, wlFile, sheetRows,
                   chatMsgs, faultLog, trace, result>>

\* line 202: append_csv(signals, "output/trade_log.csv")
AppendCsv ==
    /\ pc = "append_csv"
    /\ \E ok \in BOOLEAN :
          IF ok
            THEN /\ tradeLog' = tradeLog \o signals
                 /\ pc' = "sheets"
                 /\ UNCHANGED outcome
            ELSE /\ pc' = "done"
                 /\ outcome' = "failed"
                 /\ UNCHANGED tradeLog
    /\ UNCHANGED <<dryRun, startDay, nowMin, watchlist, symIdx, stratIdx, behaviour,
                   signals, invoked, acceptedFrom, snapshot, wlFile, sheetRows,
                   chatMsgs, faultLog, trace, result>>

\* the rows sent once more after they were accepted
AppendRowsTwice(sheet, sigs) == sheet \o sigs \o sigs

\* lines 44-60: one append request carrying one row per signal
AppendRows(sheet, sigs) == sheet \o sigs

\* line 203: send_to_google_sheets(signals)
SendSheets ==
    /\ pc = "sheets"
    /\ trace' = Append(trace, "NOTIFYING")
    /\ \E ok \in BOOLEAN :
          IF ok
            THEN sheetRows' = AppendRows(sheetRows, signals) /\ UNCHANGED faultLog
            ELSE faultLog' = Append(faultLog, "sheets") /\ UNCHANGED sheetRows
    /\ pc' = "highconf"
    /\ UNCHANGED <<dryRun, startDay, nowMin, watchlist, symIdx, stratIdx, behaviour,
                   signals, invoked, acceptedFrom, snapshot, tradeLog, wlFile,
                   chatMsgs, outcome, result>>

\* line 204: send_high_confidence_trades(signals, min_confidence=0.8, limit=3)
SendHighConf ==
    /\ pc = "highconf"
    /\ LET top == HighConfSelect(signals, HighConfidence, AlertLimit)
       IN IF top = <<>>
            THEN UNCHANGED <<chatMsgs, faultLog>>
            ELSE \E ok \in BOOLEAN :
                    IF ok
                      THEN /\ chatMsgs' = Append(chatMsgs, [kind |-> "alert", items |-> top])
                           /\ UNCHANGED faultLog
                      ELSE /\ faultLog' = Append(faultLog, "chat")
                           /\ UNCHANGED chatMsgs
    /\ pc' = "pnl"
    /\ UNCHANGED <<dryRun, startDay, nowMin, watchlist, symIdx, stratIdx, behaviour,
                   signals, invoked, acceptedFrom, snapshot, tradeLog, wlFile,
                   sheetRows, trace, outcome, result>>

\* lines 209-215: the position tracker is run inside a try. Inside run() of
\* src/src/pnl_tracker.py a failed read of the sheet is printed and ends the
\* pass (lines 42-44, 197-199), a failed update is printed (lines 167-168),
\* and at or after 15:30 the tracker sends its own summary (lines 204-206)
TrackerRuns == {"raised", "read_failed", "update_failed", "done"}

PnlTracker ==
    /\ pc = "pnl"
    /\ \E res \in TrackerRuns, minute \in ClockAfter(nowMin), ok \in BOOLEAN :
          IF res = "raised"
            THEN /\ faultLog' = Append(faultLog, "pnl")
                 /\ UNCHANGED <<chatMsgs, nowMin>>
            ELSE IF res = "read_failed"
            THEN /\ faultLog' = Append(faultLog, "sheet_read")
                 /\ UNCHANGED <<chatMsgs, nowMin>>
            ELSE IF sheetRows = <<>>
            THEN UNCHANGED <<chatMsgs, faultLog, nowMin>>
            ELSE LET updated == IF res = "update_failed"
                                  THEN Append(faultLog, "sheet_update")
                                  ELSE faultLog
                 IN /\ nowMin' = minute
                    /\ IF minute >= MarketCloseMin
                         THEN IF ok
                                THEN /\ chatMsgs' = Append(chatMsgs, [kind |-> "summary"])
                                     /\ faultLog' = updated
                                ELSE /\ faultLog' = Append(updated, "chat")
                                     /\ UNCHANGED chatMsgs
                         ELSE /\ faultLog' = updated
                              /\ UNCHANGED chatMsgs
    /\ pc' = "eod"
    /\ UNCHANGED <<dryRun, startDay, watchlist, symIdx, stratIdx, behaviour, signals,
                   invoked, acceptedFrom, snapshot, tradeLog, wlFile, sheetRows, trace,
                   outcome, result>>

\* lines 217-224: end-of-day summary at or after 15:30, then return signals
EodAndReturn ==
    /\ pc = "eod"
    /\ \E minute \in ClockAfter(nowMin), ok \in BOOLEAN :
          /\ nowMin' = minute
          /\ IF minute >= MarketCloseMin
               THEN IF ok
                      THEN /\ chatMsgs' = Append(chatMsgs, [kind |-> "eod"])
                           /\ UNCHANGED faultLog
                      ELSE /\ faultLog' = Append(faultLog, "chat")
                           /\ UNCHANGED chatMsgs
               ELSE UNCHANGED <<chatMsgs, faultLog>>
    /\ pc' = "done"
    /\ outcome' = "ok"
    /\ result' = signals
    /\ UNCHANGED <<dryRun, startDay, watchlist, symIdx, stratIdx, behaviour, signals,
                   invoked, acceptedFrom, snapshot, tradeLog, wlFile, sheetRows, trace>>

(***************************************************************************)
(* Calls of the scorer on their own                                        *)
(***************************************************************************)
\* get_dynamic_tickers(pool_tickers=uPool, top_n=uTopN)
CallGetDynamicTickers ==
    /\ uPc = "init"
    /\ uDynamic' = GetDynamicTickers(uPool, uTopN, uData)
    /\ uPc' = "scored"
    /\ UNCHANGED <<uCore, uPool, uData, uTopN, uFinal, wlFile>>

\* build_watchlist(pool_tickers=uPool, top_n=uTopN); a failed write of the
\* watchlist file is swallowed (lines 176-180)
CallBuildWatchlist ==
    /\ uPc = "init"
    /\ uDynamic' = GetDynamicTickers(uPool, uTopN, uData)
    /\ uFinal' = BuildWatchlist(uCore, uPool, uTopN, uData)
    /\ \E written \in BOOLEAN :
          wlFile' = IF written THEN uFinal' ELSE wlFile
    /\ uPc' = "built"
    /\ UNCHANGED <<uCore, uPool, uData, uTopN>>

(***************************************************************************)
(* Heartbeat throttle: the two telegram_alert modules                      *)
(***************************************************************************)
\* interval_minutes=60 (json variant) and timedelta(hours=1) (txt variant)
HeartbeatIntervalMin == 60
HeartbeatHours == 1

StartClock == 100000
MaxElapsed == 7500
TickSteps == {600, 3601, 3660}
WriteDelays == {0, 1}

\* the sentinel as the program finds it: no file, a file that does not parse,
\* a JSON object without "timestamp" (json variant only), or a timestamp
SentinelStates(variant) ==
    {[state |-> "absent"], [state |-> "corrupt"], [state |-> "ok", ts |-> StartClock]}
    \cup (IF variant = "json" THEN {[state |-> "nokey"]} ELSE {})

\* src/src/utils/telegram_alert.py, can_send_heartbeat(interval_minutes)
CanSendHeartbeatJson(file, now, intervalMinutes) ==
    IF file.state = "absent" THEN TRUE
    ELSE IF file.state = "corrupt" THEN TRUE
    ELSE LET lastTime == IF file.state = "ok" THEN file.ts ELSE 0
         IN now - lastTime >= intervalMinutes * 60

\* src/utils/telegram_alert.py, can_send_heartbeat()
CanSendHeartbeatTxt(file, now) ==
    IF file.state = "absent" THEN TRUE
    ELSE IF file.state = "corrupt" THEN TRUE
    ELSE now - file.ts > HeartbeatHours * 3600

\* the interval taken in seconds instead of minutes
CanSendHeartbeatNoScale(variant, file, now) ==
    IF file.state \in {"absent", "corrupt"} THEN TRUE
    ELSE now - (IF file.state = "ok" THEN file.ts ELSE 0) >= HeartbeatIntervalMin

CanSendHeartbeat(variant, file, now) ==
    IF variant = "json"
      THEN CanSendHeartbeatJson(file, now, HeartbeatIntervalMin)
      ELSE CanSendHeartbeatTxt(file, now)

\* update_heartbeat(): the sentinel is overwritten with the current time
UpdateHeartbeat(now) == [state |-> "ok", ts |-> now]

\* time passes between two requests
Tick ==
    /\ \E d \in TickSteps :
          /\ hbClock + d <= StartClock + MaxElapsed
          /\ hbClock' = hbClock + d
    /\ UNCHANGED <<hbVariant, hbFile, hbSent, hbLast>>

\* one heartbeat request: ask can_send_heartbeat, and if it allows, send the
\* notice and record the time with update_heartbeat
HeartbeatRequest ==
    /\ hbClock < StartClock + MaxElapsed
    /\ LET allowed == CanSendHeartbeat(hbVariant, hbFile, hbClock)
       IN /\ hbLast' = [asked |-> TRUE, at |-> hbClock, file |-> hbFile,
                        allowed |-> allowed]
          /\ IF allowed
               THEN /\ hbSent' = Append(hbSent, hbClock)
                    /\ \E d \in WriteDelays :
                          /\ hbClock' = hbClock + d
                          /\ hbFile' = UpdateHeartbeat(hbClock')
               ELSE UNCHANGED <<hbSent, hbClock, hbFile>>
    /\ UNCHANGED hbVariant

(***************************************************************************)
(* Position tracker: src/src/pnl_tracker.py, and evaluate_pnl of           *)
(* src/src/pipeline.py. Percentages are integers in hundredths of a        *)
(* percent (two decimals, as both functions round them).                   *)
(***************************************************************************)
MaxPasses == 2

\* float("nan") as a live price; an empty or NaN percentage cell
PriceNaN == 0 - 1
PctNaN == 0 - 1000000
\* the data provider returned an empty frame
NoData == 0 - 2

\* rows the tracker finds in the sheet: side, entry, target and stop-loss. The
\* third is what run() logs for a SELL signal that came without stop and target
TrackedRows == {
    [Side |-> "BUY", Entry |-> 10000, Target |-> 10500, Stoploss |-> 9800],
    [Side |-> "SELL", Entry |-> 10000, Target |-> 9500, Stoploss |-> 10200],
    [Side |-> "SELL", Entry |-> 10000, Target |-> 10150, Stoploss |-> 9850],
    [Side |-> "buy", Entry |-> 30000, Target |-> 30600, Stoploss |-> 29400],
    [Side |-> "SELL", Entry |-> 30000, Target |-> 29400, Stoploss |-> 30600] }

\* last close of the 1-minute bars, rounded to two decimals
TrackPrices == {PriceNaN, 0, 9500, 9700, 9800, 10100, 10500, 10600, 29999, 30001,
                30600}

\* str(...).upper() on the side column
Upper(side) ==
    CASE side = "buy" -> "BUY"
      [] side = "sell" -> "SELL"
      [] OTHER -> side

\* n / d rounded to the nearest integer, ties to even (round(x, 2) on the
\* hundredths scale), d > 0
RoundDiv(n, d) ==
    LET q == n \div d
        r == n % d
    IN IF 2 * r < d THEN q
       ELSE IF 2 * r > d THEN q + 1
       ELSE IF q % 2 = 0 THEN q ELSE q + 1

\* the percentage with its sign dropped
PctUnsigned(num, entry) == RoundDiv((IF num < 0 THEN 0 - num ELSE num) * 10000, entry)

\* (num / entry) * 100 rounded to two decimals
Pct(num, entry) == RoundDiv(num * 10000, entry)

\* compute(row) with the target and stop comparisons strict
TrackerComputeStrict(row, lp) ==
    LET entry == row.Entry
        target == row.Target
        stop == row.Stoploss
        side == Upper(row.Side)
    IN IF lp = PriceNaN \/ lp = 0 THEN [Result |-> "Open", PnL |-> 0]
       ELSE IF side = "BUY"
         THEN IF lp > target
                THEN [Result |-> "Target Hit", PnL |-> Pct(target - entry, entry)]
              ELSE IF lp < stop
                THEN [Result |-> "SL Hit", PnL |-> Pct(stop - entry, entry)]
              ELSE [Result |-> "Open", PnL |-> Pct(lp - entry, entry)]
       ELSE IF side = "SELL"
         THEN IF lp < target
                THEN [Result |-> "Target Hit", PnL |-> Pct(entry - target, entry)]
              ELSE IF lp > stop
                THEN [Result |-> "SL Hit", PnL |-> Pct(entry - stop, entry)]
              ELSE [Result |-> "Open", PnL |-> Pct(entry - lp, entry)]
       ELSE [Result |-> "Open", PnL |-> 0]

\* pnl_tracker.py lines 115-145: compute(row) and the rounding of line 145
TrackerCompute(row, lp) ==
    LET entry == row.Entry
        target == row.Target
        stop == row.Stoploss
        side == Upper(row.Side)
    IN IF lp = PriceNaN \/ lp = 0 THEN [Result |-> "Open", PnL |-> 0]
       ELSE IF side = "BUY"
         THEN IF lp >= target
                THEN [Result |-> "Target Hit", PnL |-> Pct(target - entry, entry)]
              ELSE IF lp <= stop
                THEN [Result |-> "SL Hit", PnL |-> Pct(stop - entry, entry)]
              ELSE [Result |-> "Open", PnL |-> Pct(lp - entry, entry)]
       ELSE IF side = "SELL"
         THEN IF lp <= target
                THEN [Result |-> "Target Hit", PnL |-> Pct(entry - target, entry)]
              ELSE IF lp >= stop
                THEN [Result |-> "SL Hit", PnL |-> Pct(entry - stop, entry)]
              ELSE [Result |-> "Open", PnL |-> Pct(entry - lp, entry)]
       ELSE [Result |-> "Open", PnL |-> 0]

\* evaluate_pnl with the percentage always taken from the live price
EvaluatePnlLive(sig, lp) ==
    LET entry == sig["Entry"]
        target == sig["Target"]
        stop == sig["StopLoss"]
        nan == lp = PriceNaN
        move == IF sig["Side"] = "BUY" THEN lp - entry ELSE entry - lp
        pnl == IF nan THEN PctNaN ELSE Pct(move, entry)
    IN IF sig["Side"] = "BUY"
         THEN IF ~nan /\ lp >= target THEN [Result |-> "Target Hit", PnL |-> pnl]
              ELSE IF ~nan /\ lp <= stop THEN [Result |-> "SL Hit", PnL |-> pnl]
              ELSE [Result |-> "Open", PnL |-> pnl]
         ELSE IF ~nan /\ lp <= target THEN [Result |-> "Target Hit", PnL |-> pnl]
              ELSE IF ~nan /\ lp >= stop THEN [Result |-> "SL Hit", PnL |-> pnl]
              ELSE [Result |-> "Open", PnL |-> pnl]

\* pipeline.py lines 102-122: one signal in evaluate_pnl; a comparison with NaN
\* is false, and every side other than "BUY" takes the SELL branch
EvaluatePnl(sig, lp) ==
    LET entry == sig["Entry"]
        target == sig["Target"]
        stop == sig["StopLoss"]
        nan == lp = PriceNaN
    IN IF sig["Side"] = "BUY"
         THEN IF ~nan /\ lp >= target
                THEN [Result |-> "Target Hit", PnL |-> Pct(target - entry, entry)]
              ELSE IF ~nan /\ lp <= stop
                THEN [Result |-> "SL Hit", PnL |-> Pct(stop - entry, entry)]
              ELSE [Result |-> "Open",
                    PnL |-> IF nan THEN PctNaN ELSE Pct(lp - entry, entry)]
         ELSE IF ~nan /\ lp <= target
                THEN [Result |-> "Target Hit", PnL |-> Pct(entry - target, entry)]
              ELSE IF ~nan /\ lp >= stop
                THEN [Result |-> "SL Hit", PnL |-> Pct(entry - stop, entry)]
              ELSE [Result |-> "Open",
                    PnL |-> IF nan THEN PctNaN ELSE Pct(entry - lp, entry)]

\* the row as fetch_signals reads it before any pass: columns J-L are empty
FreshRow(row) ==
    [Side |-> row.Side, Entry |-> row.Entry, Target |-> row.Target,
     Stoploss |-> row.Stoploss, LivePrice |-> PriceNaN, Result |-> "",
     PnL |-> PctNaN]

\* the signal of the row as run() holds it
RowSignal(row) ==
    [Side |-> row.Side, Entry |-> row.Entry, Target |-> row.Target,
     StopLoss |-> row.Stoploss]

\* pnl_tracker.py run(), lines 195-202: one pass over the sheet. The statuses
\* are recomputed from the price fetched in this pass; update_sheet may fail,
\* which leaves columns J-L as they were (lines 167-168)
TrackerPass ==
    /\ Len(trHist) < MaxPasses
    /\ \E lp \in TrackPrices, updated \in BOOLEAN :
          LET r == TrackerCompute(trRow, lp)
          IN /\ trHist' = Append(trHist, [price |-> lp, Result |-> r.Result,
                                          PnL |-> r.PnL])
             /\ trRow' = IF updated
                           THEN [trRow EXCEPT !.LivePrice = lp, !.Result = r.Result,
                                              !.PnL = r.PnL]
                           ELSE trRow
    /\ UNCHANGED trEod

\* pipeline.py lines 93-125: evaluate_pnl on the signal of the row, for the
\* sides the strategies emit
EodEvaluate ==
    /\ ~trEod.asked
    /\ trRow.Side \in {"BUY", "SELL"}
    /\ \E lp \in TrackPrices \cup {NoData} :
          trEod' = IF lp = NoData
                     THEN [asked |-> TRUE, skipped |-> TRUE]
                     ELSE LET r == EvaluatePnl(RowSignal(trRow), lp)
                          IN [asked |-> TRUE, skipped |-> FALSE, price |-> lp,
                              Result |-> r.Result, PnL |-> r.PnL]
    /\ UNCHANGED <<trRow, trHist>>

(***************************************************************************)
(* HTTP trigger: src/src/server.py                                         *)
(***************************************************************************)
MaxRequests == 3

\* a thread is in flight from Thread.start() until run() returns
InFlight(i) == srvThreads[i] \notin {"closed", "done"}

\* lines 12-16: GET /run starts a thread on run(dry_run=False) and answers 200;
\* nothing is tested before the thread is started
TriggerRun ==
    /\ Len(srvThreads) < MaxRequests
    /\ srvThreads' = Append(srvThreads, "started")
    /\ UNCHANGED srvWriter

\* pipeline.py lines 165-167 in thread i: the trading-hours gate
ThreadGate(i) ==
    /\ srvThreads[i] = "started"
    /\ \E open \in BOOLEAN :
          srvThreads' = [srvThreads EXCEPT ![i] = IF open THEN "eval" ELSE "closed"]
    /\ UNCHANGED srvWriter

\* pipeline.py lines 169-202 in thread i: evaluation, then either the early
\* return or the write of the snapshot and of the trade log
ThreadEvaluate(i) ==
    /\ srvThreads[i] = "eval"
    /\ \E found \in BOOLEAN :
          IF found
            THEN /\ srvThreads' = [srvThreads EXCEPT ![i] = "notify"]
                 /\ srvWriter' = i
            ELSE /\ srvThreads' = [srvThreads EXCEPT ![i] = "done"]
                 /\ UNCHANGED srvWriter

\* pipeline.py lines 203-224 in thread i: the dispatches, then return
ThreadNotify(i) ==
    /\ srvThreads[i] = "notify"
    /\ srvThreads' = [srvThreads EXCEPT ![i] = "done"]
    /\ UNCHANGED srvWriter

(***************************************************************************)
(* Trade log file: append_csv of src/src/helpers.py. A row handed to       *)
(* append_csv is a dict in insertion order: a sequence of <<key, value>>   *)
(* pairs. The file is a header and rows of cells in header order.          *)
(***************************************************************************)
MaxCsvRows == 3
MaxBatch == 2

\* the Python value None
NoneVal == "<None>"

CsvRowDicts == {
    << <<"a", "x">>, <<"b", "y">> >>,
    << <<"b", "x">>, <<"a", "y">> >>,
    << <<"a", "x">>, <<"c", NoneVal>> >>,
    << <<"c", "y">> >>,
    << <<"b", "y">>, <<"c", "x">>, <<"a", "x">> >>,
    << <<"a", NoneVal>> >> }

\* what the caller passes: None, one dict, or a list of dicts
CsvData ==
    {[kind |-> "none"]}
      \cup {[kind |-> "dict", val |-> r] : r \in CsvRowDicts}
      \cup {[kind |-> "list", val |-> b] : b \in BoundedSeq(CsvRowDicts, MaxBatch)}

\* lines 39-49: the input as a list of rows
RowsOf(data) ==
    CASE data.kind = "none" -> <<>>
      [] data.kind = "dict" -> <<data.val>>
      [] OTHER -> data.val

Keys(r) == [n \in 1..Len(r) |-> r[n][1]]

\* r.get(k, default)
DictGet(r, k, default) ==
    IF \E n \in 1..Len(r) : r[n][1] = k
      THEN r[CHOOSE n \in 1..Len(r) : r[n][1] = k][2]
      ELSE default

\* lines 20-29: _normalize_cell on None and on text
NormalizeCell(val) == IF val = NoneVal THEN "" ELSE val

\* lines 71-73: append every item not yet in the list
RECURSIVE AddMissing(_, _)
AddMissing(list, items) ==
    IF items = <<>> THEN list
    ELSE AddMissing(IF Head(items) \in Range(list) THEN list
                    ELSE Append(list, Head(items)),
                    Tail(items))

\* lines 56-60: the field names of the rows in order of first appearance
RECURSIVE CollectKeys(_, _)
CollectKeys(acc, rows) ==
    IF rows = <<>> THEN acc
    ELSE CollectKeys(AddMissing(acc, Keys(Head(rows))), Tail(rows))

\* lines 64-67: csv.DictReader over the file, one dict per row
ReadRows(file) ==
    [n \in 1..Len(file.rows) |->
        [j \in 1..Len(file.header) |-> <<file.header[j], file.rows[n][j]>>]]

\* lines 82-83, 86-87, 94-95, 102-103: one row written under the field names
WriteRow(fields, r) ==
    [j \in 1..Len(fields) |-> NormalizeCell(DictGet(r, fields[j], ""))]

WriteRows(fields, rows) == [n \in 1..Len(rows) |-> WriteRow(fields, rows[n])]

\* append_csv that never rewrites the file: rows are appended under the
\* header the file already has
AppendCsvNoWiden(file, rows) ==
    IF rows = <<>> THEN file
    ELSE IF file.exists /\ file.header # <<>>
      THEN [file EXCEPT !.rows = @ \o WriteRows(file.header, rows)]
      ELSE [exists |-> TRUE, header |-> CollectKeys(<<>>, rows),
            rows |-> WriteRows(CollectKeys(<<>>, rows), rows)]

\* lines 48-103 of append_csv
AppendCsvRows(file, rows) ==
    IF rows = <<>> THEN file
    ELSE LET new == CollectKeys(<<>>, rows)
         IN IF file.exists
              THEN LET existing == file.header
                       old == ReadRows(file)
                       final == AddMissing(existing, new)
                   IN IF Range(final) # Range(existing)
                        THEN [exists |-> TRUE, header |-> final,
                              rows |-> WriteRows(final, old) \o WriteRows(final, rows)]
                        ELSE [file EXCEPT !.rows = @ \o WriteRows(existing, rows)]
              ELSE [exists |-> TRUE, header |-> new, rows |-> WriteRows(new, rows)]

\* append_csv(data, filename) called once
CallAppendCsv ==
    \E data \in CsvData :
       /\ Len(csvWritten) + Len(RowsOf(data)) <= MaxCsvRows
       /\ csvFile' = AppendCsvRows(csvFile, RowsOf(data))
       /\ csvWritten' = csvWritten \o RowsOf(data)

(***************************************************************************)
(* Strategy modules: src/strategies/*.py. A MultiTimeframeView is the dict *)
(* get_multi_timeframes returns: per timeframe a frame, or no entry. A     *)
(* frame is reduced to what the modules test: its length, the number of    *)
(* rows with complete OHLCV, its columns, whether all its prices are equal *)
(* (zero-width range), and whether the entry rule fires on its last bars.  *)
(***************************************************************************)
Timeframes == {"1d", "1h", "5m"}

OHLC == {"open", "high", "low", "close"}
IndicatorCols == {"ema20", "ema50", "macd", "signal", "hist", "atr"}
AllCols == OHLC \cup {"volume"} \cup IndicatorCols

\* multi_df.get(tf) is None
NoFrame == [present |-> FALSE]

Frames == {
    [present |-> TRUE, rows |-> 0, full |-> 0, cols |-> AllCols, flat |-> FALSE,
     setup |-> "none"],
    [present |-> TRUE, rows |-> 1, full |-> 1, cols |-> AllCols, flat |-> FALSE,
     setup |-> "buy"],
    [present |-> TRUE, rows |-> 60, full |-> 0, cols |-> AllCols, flat |-> FALSE,
     setup |-> "none"],
    [present |-> TRUE, rows |-> 60, full |-> 60, cols |-> AllCols, flat |-> FALSE,
     setup |-> "buy"],
    [present |-> TRUE, rows |-> 60, full |-> 60, cols |-> AllCols, flat |-> FALSE,
     setup |-> "sell"],
    [present |-> TRUE, rows |-> 60, full |-> 60, cols |-> AllCols, flat |-> FALSE,
     setup |-> "none"],
    [present |-> TRUE, rows |-> 60, full |-> 60, cols |-> AllCols, flat |-> TRUE,
     setup |-> "none"],
    [present |-> TRUE, rows |-> 60, full |-> 60, cols |-> OHLC \cup {"volume"},
     flat |-> FALSE, setup |-> "buy"],
    [present |-> TRUE, rows |-> 60, full |-> 60, cols |-> AllCols \ {"volume"},
     flat |-> FALSE, setup |-> "sell"],
    [present |-> TRUE, rows |-> 60, full |-> 60, cols |-> AllCols \ {"close"},
     flat |-> FALSE, setup |-> "buy"] }

Views == [Timeframes -> Frames \cup {NoFrame}]

\* the modules of the strategies directory
StrategyFiles == {"macd_crossover", "pivot_srl_breakout", "orb_trend_filter",
                  "closing_near_highlow", "market_structure_orderblock",
                  "test_strategy"}

\* len(df) < 50 (macd_crossover), n < 10 (orb_trend_filter), shape[0] < 2
\* (pivot_srl_breakout, closing_near_highlow), MIN_BARS = ZIGZAG_LENGTH * 2 + 5
MacdMinBars == 50
OrbMinBars == 10
DailyMinBars == 2
OrderBlockMinBars == 23

ReturnsNone == [kind |-> "none"]

\* df[...] or dropna(subset=...) on a column the frame does not have
RaisesKeyError == [kind |-> "raise", error |-> "KeyError"]

\* iloc[-1] on a frame without rows
RaisesIndexError == [kind |-> "raise", error |-> "IndexError"]

ReturnsSignal(setup, label) ==
    [kind |-> "signal", Side |-> IF setup = "buy" THEN "BUY" ELSE "SELL",
     Strategy |-> label]

\* macd_crossover.py lines 16-58
MacdCrossover(view) ==
    LET df == view["5m"]
    IN IF ~df.present THEN ReturnsNone
       ELSE IF df.rows < MacdMinBars THEN ReturnsNone
       ELSE IF ~({"macd", "signal"} \subseteq df.cols) THEN RaisesKeyError
       ELSE IF df.setup = "none" THEN ReturnsNone
       ELSE IF ~({"ema20", "ema50", "close", "atr", "hist"} \subseteq df.cols)
         THEN RaisesKeyError
       ELSE ReturnsSignal(df.setup, "macd_crossover")

\* pivot_srl_breakout.py lines 29-89
PivotSrlBreakout(view) ==
    LET df1 == view["1d"]
        df5 == view["5m"]
    IN IF ~df1.present \/ ~df5.present THEN ReturnsNone
       ELSE IF df1.rows = 0 \/ df5.rows = 0 THEN ReturnsNone
       ELSE IF ~({"high", "low", "close"} \subseteq df1.cols) THEN RaisesKeyError
       ELSE IF df1.full < DailyMinBars THEN ReturnsNone
       ELSE IF ~(OHLC \subseteq df5.cols) THEN RaisesKeyError
       ELSE IF df5.full = 0 THEN RaisesIndexError
       ELSE IF df5.setup = "none" THEN ReturnsNone
       ELSE IF df1.flat THEN ReturnsNone
       ELSE ReturnsSignal(df5.setup, "pivot_srl_breakout")

\* orb_trend_filter.py lines 22-121
OrbTrendFilter(view) ==
    LET df == view["5m"]
    IN IF ~df.present THEN ReturnsNone
       ELSE IF df.rows = 0 THEN ReturnsNone
       ELSE IF ~(OHLC \cup {"volume"} \subseteq df.cols) THEN RaisesKeyError
       ELSE IF df.full < OrbMinBars THEN ReturnsNone
       ELSE IF df.setup = "none" THEN ReturnsNone
       ELSE ReturnsSignal(df.setup, "orb_trend_filter")

\* closing_near_highlow.py lines 55-139
ClosingNearHighLow(view) ==
    LET df == view["1d"]
    IN IF ~df.present THEN ReturnsNone
       ELSE IF df.rows < DailyMinBars THEN ReturnsNone
       ELSE IF ~(OHLC \subseteq df.cols) THEN RaisesKeyError
       ELSE IF df.full < DailyMinBars THEN ReturnsNone
       ELSE IF df.flat THEN ReturnsNone
       ELSE IF df.setup = "none" THEN ReturnsNone
       ELSE ReturnsSignal(df.setup, "closing_near_highlow_refined")

\* market_structure_orderblock.py lines 76-205
MarketStructureOrderblock(view) ==
    LET df == view["1h"]
    IN IF ~df.present THEN ReturnsNone
       ELSE IF df.rows < OrderBlockMinBars THEN ReturnsNone
       ELSE IF ~(OHLC \subseteq df.cols) THEN RaisesKeyError
       ELSE IF df.full < OrderBlockMinBars THEN ReturnsNone
       ELSE IF df.flat THEN ReturnsNone
       ELSE IF df.setup = "none" THEN ReturnsNone
       ELSE ReturnsSignal(df.setup, "market_structure_orderblock")

\* test_strategy.py: a BUY whatever the view holds
TestStrategy(view) == ReturnsSignal("buy", "test_strategy")

\* mod.generate_signal(ticker, multi_df)
GenerateSignal(mod, view) ==
    CASE mod = "macd_crossover" -> MacdCrossover(view)
      [] mod = "pivot_srl_breakout" -> PivotSrlBreakout(view)
      [] mod = "orb_trend_filter" -> OrbTrendFilter(view)
      [] mod = "closing_near_highlow" -> ClosingNearHighLow(view)
      [] mod = "market_structure_orderblock" -> MarketStructureOrderblock(view)
      [] OTHER -> TestStrategy(view)

\* one module is called on the view
CallGenerateSignal ==
    /\ ~stCall.called
    /\ \E mod \in StrategyFiles :
          stCall' = [called |-> TRUE, mod |-> mod, res |-> GenerateSignal(mod, stView)]
    /\ UNCHANGED stView

(***************************************************************************)
(* Strategy discovery: src/src/run_strategies.py                           *)
(***************************************************************************)
\* file names (without .py) the strategies directory may hold
DirNames == {"alpha", "beta", "_private"}

\* name.startswith("_")
Underscored(name) == name \in {"_private"}

NoFile == [present |-> FALSE]

\* what REQUIRED_INDICATORS of a module can be: not declared, or a list
Declarations == {
    [declared |-> FALSE],
    [declared |-> TRUE, list |-> <<>>],
    [declared |-> TRUE, list |-> <<"atr">>],
    [declared |-> TRUE, list |-> <<"macd", "atr", "macd">>] }

\* a module file: importing it raises, or it imports and has generate_signal
\* or not, and REQUIRED_INDICATORS or not
ModuleFiles ==
    {[present |-> TRUE, imports |-> FALSE]}
      \cup {[present |-> TRUE, imports |-> TRUE, gs |-> g, req |-> d] :
               g \in BOOLEAN, d \in Declarations}

Directories == [DirNames -> ModuleFiles \cup {NoFile}]

\* glob(os.path.join(STRAT_PATH, "*.py")): the files present, in any order
GlobOrders(dir) ==
    LET present == {n \in DirNames : dir[n].present}
    IN {o \in [1..Cardinality(present) -> present] :
           \A a, b \in 1..Cardinality(present) : o[a] = o[b] => a = b}

\* lines 8-19: load_strategy_modules over the files in glob order; an
\* exception of import_module leaves the function
RECURSIVE LoadStrategyModules(_, _)
LoadStrategyModules(files, dir) ==
    IF files = <<>> THEN [raised |-> FALSE, mods |-> <<>>]
    ELSE LET name == Head(files)
             rest == LoadStrategyModules(Tail(files), dir)
         IN IF Underscored(name) THEN rest
            ELSE IF ~dir[name].imports THEN [raised |-> TRUE]
            ELSE IF rest.raised THEN rest
            ELSE IF dir[name].gs
              THEN [raised |-> FALSE, mods |-> <<name>> \o rest.mods]
            ELSE rest

\* lines 21-27: get_required_indicators, the set behind the list returned
RECURSIVE GetRequiredIndicators(_, _)
GetRequiredIndicators(mods, dir) ==
    IF mods = <<>> THEN {}
    ELSE LET req == dir[Head(mods)].req
         IN (IF req.declared THEN Range(req.list) ELSE {})
              \cup GetRequiredIndicators(Tail(mods), dir)

\* pipeline.py lines 170-171: strategies = load_strategy_modules(), then
\* needed_indicators = get_required_indicators(strategies)
CallDiscovery ==
    /\ ~ldResult.called
    /\ \E order \in GlobOrders(ldDir) :
          LET r == LoadStrategyModules(order, ldDir)
          IN ldResult' =
                IF r.raised THEN [called |-> TRUE, raised |-> TRUE]
                ELSE [called |-> TRUE, raised |-> FALSE, mods |-> r.mods,
                      indicators |-> GetRequiredIndicators(r.mods, ldDir)]
    /\ UNCHANGED ldDir

LdInit ==
    /\ ldDir = [n \in DirNames |-> NoFile]
    /\ ldResult = [called |-> FALSE]

(***************************************************************************)
(* Two runs in append_csv at once: src/src/helpers.py lines 63-103, called *)
(* from threads that server.py starts without mutual exclusion. The steps  *)
(* of one call are its file operations: the existence test, the read, and  *)
(* the write (rewrite, append or create).                                  *)
(***************************************************************************)
Racers == {1, 2}

\* the trade log before the two calls: absent, or one row under header a, b
EarlierRow == << <<"a", "x">>, <<"b", "y">> >>

\* line 63: os.path.exists(filename), after the rows were normalised
CwExists(i) ==
    /\ cwThreads[i].pc = "idle"
    /\ \E r \in CsvRowDicts :
          cwThreads' = [cwThreads EXCEPT ![i] =
                           [pc |-> IF csvFile.exists THEN "read" ELSE "create",
                            rows |-> <<r>>]]
    /\ UNCHANGED <<csvFile, csvWritten>>

\* lines 64-73: header and rows are read, the final header is built
CwRead(i) ==
    /\ cwThreads[i].pc = "read"
    /\ cwThreads' = [cwThreads EXCEPT ![i] =
                        [pc |-> "write", rows |-> cwThreads[i].rows,
                         existing |-> csvFile.header, old |-> ReadRows(csvFile)]]
    /\ UNCHANGED <<csvFile, csvWritten>>

\* lines 76-95: the file is rewritten under the widened header with the rows
\* read earlier, or the new rows are appended under the header read earlier
CwWrite(i) ==
    /\ cwThreads[i].pc = "write"
    /\ LET t == cwThreads[i]
           final == AddMissing(t.existing, CollectKeys(<<>>, t.rows))
       IN csvFile' =
             IF Range(final) # Range(t.existing)
               THEN [exists |-> TRUE, header |-> final,
                     rows |-> WriteRows(final, t.old) \o WriteRows(final, t.rows)]
               ELSE [csvFile EXCEPT !.rows = @ \o WriteRows(t.existing, t.rows)]
    /\ csvWritten' = csvWritten \o cwThreads[i].rows
    /\ cwThreads' = [cwThreads EXCEPT ![i] = [pc |-> "done", rows |-> cwThreads[i].rows]]

\* lines 96-103: the file was not there at line 63; it is opened with "w"
CwCreate(i) ==
    /\ cwThreads[i].pc = "create"
    /\ LET t == cwThreads[i]
           new == CollectKeys(<<>>, t.rows)
       IN csvFile' = [exists |-> TRUE, header |-> new, rows |-> WriteRows(new, t.rows)]
    /\ csvWritten' = csvWritten \o cwThreads[i].rows
    /\ cwThreads' = [cwThreads EXCEPT ![i] = [pc |-> "done", rows |-> cwThreads[i].rows]]

CwInit == cwThreads = [i \in Racers |-> [pc |-> "idle"]]

TrInit ==
    /\ trRow = FreshRow([Side |-> "BUY", Entry |-> 10000, Target |-> 10500,
                         Stoploss |-> 9800])
    /\ trHist = <<>>
    /\ trEod = [asked |-> FALSE]

CsvInit ==
    /\ csvFile = [exists |-> FALSE, header |-> <<>>, rows |-> <<>>]
    /\ csvWritten = <<>>

SrvInit ==
    /\ srvThreads = <<>>
    /\ srvWriter = 0

StInit ==
    /\ stView = [tf \in Timeframes |-> NoFrame]
    /\ stCall = [called |-> FALSE]

ExtInit == StInit /\ LdInit /\ CwInit

AuxInit == TrInit /\ CsvInit /\ SrvInit /\ ExtInit

UInit ==
    /\ uCore = <<>>
    /\ uPool = NoPool
    /\ uData = [t \in Symbols |-> [kind |-> "empty"]]
    /\ uTopN = 1
    /\ uDynamic = <<>>
    /\ uFinal = <<>>
    /\ uPc = "init"

HbInit ==
    /\ hbVariant = "json"
    /\ hbFile = [state |-> "absent"]
    /\ hbClock = 0
    /\ hbSent = <<>>
    /\ hbLast = [asked |-> FALSE]

Init == RunInit /\ UInit /\ HbInit /\ AuxInit

Next ==
    \/ RunClosed /\ UNCHANGED <<uVars, hbVars, auxVars>>
    \/ RunOpen /\ UNCHANGED <<uVars, hbVars, auxVars>>
    \/ FetchData /\ UNCHANGED <<uVars, hbVars, auxVars>>
    \/ InvokeStrategy /\ UNCHANGED <<uVars, hbVars, auxVars>>
    \/ Cancel /\ UNCHANGED <<uVars, hbVars, auxVars>>
    \/ EndEval /\ UNCHANGED <<uVars, hbVars, auxVars>>
    \/ SaveJson /\ UNCHANGED <<uVars, hbVars, auxVars>>
    \/ AppendCsv /\ UNCHANGED <<uVars, hbVars, auxVars>>
    \/ SendSheets /\ UNCHANGED <<uVars, hbVars, auxVars>>
    \/ SendHighConf /\ UNCHANGED <<uVars, hbVars, auxVars>>
    \/ PnlTracker /\ UNCHANGED <<uVars, hbVars, auxVars>>
    \/ EodAndReturn /\ UNCHANGED <<uVars, hbVars, auxVars>>

Spec == Init /\ [][Next]_vars

\* the scorer called on every core list, pool, provider answer and top_n in bounds
UInputs ==
    /\ uCore \in BoundedSeq(Symbols, MaxCore)
    /\ uPool \in PoolArgs(Symbols, MaxPool)
    /\ uData \in [Symbols -> Profiles]
    /\ uTopN \in 1..MaxTopN
    /\ uDynamic = <<>>
    /\ uFinal = <<>>
    /\ uPc = "init"

InitUniverse == RunInit /\ UInputs /\ HbInit /\ AuxInit

runRest == <<pc, dryRun, startDay, nowMin, watchlist, symIdx, stratIdx, behaviour,
             signals, invoked, acceptedFrom, snapshot, tradeLog, sheetRows,
             chatMsgs, faultLog, trace, outcome, result>>

NextUniverse ==
    \/ CallGetDynamicTickers /\ UNCHANGED <<runRest, hbVars, auxVars>>
    \/ CallBuildWatchlist /\ UNCHANGED <<runRest, hbVars, auxVars>>

SpecUniverse == InitUniverse /\ [][NextUniverse]_vars

\* the throttle in either variant, starting from every sentinel the program can find
HbInputs ==
    /\ hbVariant \in {"json", "txt"}
    /\ hbFile \in SentinelStates(hbVariant)
    /\ hbClock = StartClock
    /\ hbSent = IF hbFile.state = "ok" THEN <<hbFile.ts>> ELSE <<>>
    /\ hbLast = [asked |-> FALSE]

InitHeartbeat == RunInit /\ UInit /\ HbInputs /\ AuxInit

NextHeartbeat ==
    \/ Tick /\ UNCHANGED <<runVars, uVars, auxVars>>
    \/ HeartbeatRequest /\ UNCHANGED <<runVars, uVars, auxVars>>

SpecHeartbeat == InitHeartbeat /\ [][NextHeartbeat]_vars

\* the tracker run on every row in bounds, with every price sequence
TrInputs ==
    /\ trRow \in {FreshRow(row) : row \in TrackedRows}
    /\ trHist = <<>>
    /\ trEod = [asked |-> FALSE]

InitTracker == RunInit /\ UInit /\ HbInit /\ TrInputs /\ CsvInit /\ SrvInit /\ ExtInit

NextTracker ==
    \/ TrackerPass /\ UNCHANGED <<runVars, uVars, hbVars, csvVars, srvVars, extVars>>
    \/ EodEvaluate /\ UNCHANGED <<runVars, uVars, hbVars, csvVars, srvVars, extVars>>

SpecTracker == InitTracker /\ [][NextTracker]_vars

NextServer ==
    \/ TriggerRun /\ UNCHANGED <<runVars, uVars, hbVars, trVars, csvVars, extVars>>
    \/ \E i \in 1..Len(srvThreads) :
          /\ \/ ThreadGate(i)
             \/ ThreadEvaluate(i)
             \/ ThreadNotify(i)
          /\ UNCHANGED <<runVars, uVars, hbVars, trVars, csvVars, extVars>>

SpecServer == Init /\ [][NextServer]_vars

\* the trade log starts absent, or present and empty
CsvInputs ==
    /\ csvFile \in {[exists |-> FALSE, header |-> <<>>, rows |-> <<>>],
                    [exists |-> TRUE, header |-> <<>>, rows |-> <<>>]}
    /\ csvWritten = <<>>

InitCsv == RunInit /\ UInit /\ HbInit /\ TrInit /\ CsvInputs /\ SrvInit /\ ExtInit

NextCsv == CallAppendCsv /\ UNCHANGED <<runVars, uVars, hbVars, trVars, srvVars, extVars>>

SpecCsv == InitCsv /\ [][NextCsv]_vars

\* every module called on every view in bounds
StInputs ==
    /\ stView \in Views
    /\ stCall = [called |-> FALSE]

InitStrategies ==
    RunInit /\ UInit /\ HbInit /\ TrInit /\ CsvInit /\ SrvInit /\ StInputs /\ LdInit /\ CwInit

NextStrategies ==
    CallGenerateSignal /\ UNCHANGED <<runVars, uVars, hbVars, trVars, csvVars, srvVars,
                                      ldVars, cwVars>>

SpecStrategies == InitStrategies /\ [][NextStrategies]_vars

\* discovery run on every directory in bounds
LdInputs ==
    /\ ldDir \in Directories
    /\ ldResult = [called |-> FALSE]

InitDiscovery ==
    RunInit /\ UInit /\ HbInit /\ TrInit /\ CsvInit /\ SrvInit /\ StInit /\ LdInputs /\ CwInit

NextDiscovery ==
    CallDiscovery /\ UNCHANGED <<runVars, uVars, hbVars, trVars, csvVars, srvVars,
                                 stVars, cwVars>>

SpecDiscovery == InitDiscovery /\ [][NextDiscovery]_vars

\* two concurrent calls on a trade log that is absent or holds an earlier row
CwInputs ==
    \/ /\ csvFile = [exists |-> FALSE, header |-> <<>>, rows |-> <<>>]
       /\ csvWritten = <<>>
    \/ /\ csvFile = AppendCsvRows([exists |-> FALSE, header |-> <<>>, rows |-> <<>>],
                                  <<EarlierRow>>)
       /\ csvWritten = <<EarlierRow>>

InitCsvRace ==
    RunInit /\ UInit /\ HbInit /\ TrInit /\ CwInputs /\ SrvInit /\ StInit /\ LdInit /\ CwInit

NextCsvRace ==
    \E i \in Racers :
       /\ \/ CwExists(i)
          \/ CwRead(i)
          \/ CwWrite(i)
          \/ CwCreate(i)
       /\ UNCHANGED <<runVars, uVars, hbVars, trVars, srvVars, stVars, ldVars>>

SpecCsvRace == InitCsvRace /\ [][NextCsvRace]_vars

(***************************************************************************)
(* Properties of the run                                                   *)
(***************************************************************************)
Conf(sig) == Get(sig, "Confidence", 0)

SameKey(a, b) == a["Stock"] = b["Stock"] /\ a["Side"] = b["Side"]

\* final holds one signal per (symbol, side) of raw, with the highest confidence
Reconciled(final, raw) ==
    /\ \A a, b \in 1..Len(final) : SameKey(final[a], final[b]) => a = b
    /\ \A r \in 1..Len(raw) :
          \E a \in 1..Len(final) :
             /\ SameKey(final[a], raw[r])
             /\ Conf(final[a]) >= Conf(raw[r])
    /\ \A a \in 1..Len(final) : \E r \in 1..Len(raw) : final[a] = raw[r]

Persisted == pc \in {"append_csv", "sheets", "highconf", "pnl", "eod"}
                \/ (pc = "done" /\ outcome = "ok" /\ result # <<>>)

\* C1: the final signal set a run persists and returns holds at most one
\* Signal per (symbol, side), and its confidence is the maximum confidence of
\* the accepted raw signals of that pair.
C1_OnePerSymbolSide ==
    /\ Persisted => Reconciled(snapshot, signals)
    /\ (pc = "done" /\ outcome = "ok") => Reconciled(result, signals)

Accepted(o) == o.kind = "signal" /\ Conf(o.sig) >= ConfidenceFloor

SymbolDone(n) == n < symIdx

\* C2: a strategy that returns none or raises on a symbol does not stop the
\* other strategies from being invoked on it: as many signals are accepted
\* from the other strategies as they produce at or above the floor.
C2_FaultIsolated ==
    \A n \in 1..Len(behaviour) :
        SymbolDone(n) =>
            /\ \A k \in 1..NumStrategies : <<n, k>> \in invoked
            /\ Cardinality({k \in 1..NumStrategies : <<n, k>> \in acceptedFrom})
                 = Cardinality({k \in 1..NumStrategies : Accepted(behaviour[n][k])})

\* C3: with dryRun = true the run still evaluates and persists (snapshot and
\* trade log written) but delivers no chat message and appends no
\* spreadsheet row.
C3_DryRunSilent ==
    (dryRun /\ pc = "done" /\ outcome = "ok" /\ signals # <<>>) =>
        /\ snapshot = signals
        /\ tradeLog = <<OldSignal>> \o signals
        /\ chatMsgs = <<>>
        /\ sheetRows = <<>>

InvokedSignals == {p \in invoked : behaviour[p[1]][p[2]].kind = "signal"}

\* C4: every signal the evaluation engine outputs has confidence at or above
\* the floor; a signal below the floor is dropped without a fault and the
\* next pair is still evaluated; a signal exactly at the floor is kept.
C4_ConfidenceFloor ==
    /\ \A n \in 1..Len(signals) : Conf(signals[n]) >= ConfidenceFloor
    /\ \A n \in 1..Len(behaviour), k \in 1..NumStrategies :
          (<<n, k>> \in invoked /\ behaviour[n][k].kind = "signal") =>
             /\ Conf(behaviour[n][k].sig) < ConfidenceFloor =>
                   /\ <<n, k>> \notin acceptedFrom
                   /\ k < NumStrategies =>
                         \/ (symIdx = n /\ stratIdx = k + 1)
                         \/ <<n, k + 1>> \in invoked
                   /\ k = NumStrategies => SymbolDone(n)
             /\ Conf(behaviour[n][k].sig) = ConfidenceFloor => <<n, k>> \in acceptedFrom
    /\ Len(SelectSeq(faultLog, LAMBDA f : f = "symbol"))
         = Cardinality({p \in invoked : behaviour[p[1]][p[2]].kind = "raise"})
    /\ (pc = "eval" /\ stratIdx = 1) =>
          \A th \in {ConfidenceFloor, DefaultThreshold, 85} :
             LET plan == behaviour[symIdx]
                 out == EvaluateForTicker(watchlist[symIdx], plan, th)
             IN /\ \A m \in 1..Len(out) : Conf(out[m]) >= th
                /\ Len(out) = Cardinality({k \in 1..NumStrategies :
                                 /\ plan[k].kind = "signal"
                                 /\ Conf(plan[k].sig) >= th})

\* C4 witness: a signal at the floor was kept and one below it was dropped
\* ahead of a strategy that was then invoked
C4_Witness ==
    /\ \E p \in InvokedSignals :
          Conf(behaviour[p[1]][p[2]].sig) = ConfidenceFloor /\ p \in acceptedFrom
    /\ \E p \in InvokedSignals :
          /\ Conf(behaviour[p[1]][p[2]].sig) < ConfidenceFloor
          /\ <<p[1], p[2] + 1>> \in acceptedFrom

SidesOk(sig) ==
    IF sig["Side"] = "BUY"
      THEN sig["StopLoss"] < sig["Entry"] /\ sig["Entry"] < sig["Target"]
      ELSE sig["Target"] < sig["Entry"] /\ sig["Entry"] < sig["StopLoss"]

\* C5: every Signal the run persists or forwards has stop-loss < entry <
\* target when BUY and target < entry < stop-loss when SELL.
C5_StopTargetSides ==
    /\ \A n \in 1..Len(snapshot) : SidesOk(snapshot[n])
    /\ \A n \in 1..Len(tradeLog) : SidesOk(tradeLog[n])
    /\ \A n \in 1..Len(sheetRows) : SidesOk(sheetRows[n])
    /\ \A n \in 1..Len(chatMsgs) :
          chatMsgs[n].kind = "alert" =>
             \A m \in 1..Len(chatMsgs[n].items) : SidesOk(chatMsgs[n].items[m])

\* C9: an invocation goes CLOSED then end, or RUNNING then NOTIFYING then
\* end, and nothing else.
C9_TwoPaths ==
    (pc = "done" /\ outcome \in {"ok", "closed"}) =>
        trace \in {<<"CLOSED">>, <<"RUNNING", "NOTIFYING">>}

ArtifactsWritten == snapshot # <<OldSignal>> \/ tradeLog # <<OldSignal>>

\* C10: the snapshot and the trade log are written only after every
\* (symbol, strategy) pair of the watchlist has been evaluated and the
\* results reconciled; a run that ends earlier leaves both unchanged.
C10_PersistAfterFullEvaluation ==
    /\ ArtifactsWritten =>
          /\ \A n \in 1..Len(watchlist), k \in 1..NumStrategies : <<n, k>> \in invoked
          /\ Reconciled(snapshot, signals)
    /\ outcome = "cancelled" => ~ArtifactsWritten

(***************************************************************************)
(* Properties of the scorer and the watchlist                              *)
(***************************************************************************)
EffectivePool == PoolInEffect(uPool)

\* the candidate pool of the call: the list supplied, or the configured pool
\* when none is supplied
SuppliedPool == IF uPool.given THEN uPool.list ELSE LoadPool

NoneScored == \A n \in 1..Len(EffectivePool) : ~Scored(uData[EffectivePool[n]])

NoDuplicates(s) == \A a, b \in 1..Len(s) : s[a] = s[b] => a = b

\* C6: when no symbol of the pool scores above zero the scorer still returns
\* exactly topN symbols of the pool.
C6_FallbackSample ==
    (uPc = "scored" /\ NoneScored /\ Cardinality(Range(EffectivePool)) >= uTopN) =>
        /\ Len(uDynamic) = uTopN
        /\ NoDuplicates(uDynamic)
        /\ Range(uDynamic) \subseteq Range(EffectivePool)

FirstIndex(s, x) == CHOOSE n \in 1..Len(s) : s[n] = x /\ \A m \in 1..(n - 1) : s[m] # x

CoreCount == Cardinality(Range(uCore))

\* no duplicate; every core symbol first, in configured order; then the picks
\* that are not core symbols, in rank order
CoreThenPicks ==
    /\ NoDuplicates(uFinal)
    /\ Range(uFinal) = Range(uCore) \cup Range(uDynamic)
    /\ \A n \in 1..Len(uFinal) : n <= CoreCount <=> uFinal[n] \in Range(uCore)
    /\ \A a, b \in 1..Len(uFinal) :
          (a < b /\ b <= CoreCount) =>
              FirstIndex(uCore, uFinal[a]) < FirstIndex(uCore, uFinal[b])
    /\ \A a, b \in 1..Len(uFinal) :
          (CoreCount < a /\ a < b) =>
              /\ FirstIndex(uDynamic, uFinal[a]) < FirstIndex(uDynamic, uFinal[b])
              /\ Score(uData[uFinal[a]]) >= Score(uData[uFinal[b]])

\* C7 as stated: the watchlist has no duplicate, holds only symbols of the
\* core list or the supplied pool, and lists all core symbols first in
\* configured order, then the scorer's picks in rank order.
C7_Original ==
    uPc = "built" =>
        /\ Range(uFinal) \subseteq Range(uCore) \cup Range(SuppliedPool)
        /\ CoreThenPicks

\* C7 amended: the watchlist has no duplicate, holds only symbols of the core
\* list or of the pool in effect (the supplied pool, or the configured pool
\* when no pool or an empty pool is supplied), and lists all core symbols
\* first in configured order, then the scorer's picks in rank order.
C7_WatchlistOrder ==
    uPc = "built" =>
        /\ Range(uFinal) \subseteq Range(uCore) \cup Range(EffectivePool)
        /\ CoreThenPicks

\* C7 witness: two core symbols in configured order, a pick that is also a
\* core symbol, and a pick that is not
C7_Witness ==
    /\ uPc = "built"
    /\ CoreCount = 2
    /\ Range(uDynamic) \cap Range(uCore) # {}
    /\ Len(uFinal) = 3
    /\ Len(uDynamic) = 2

\* positions of the pool whose candidate gets a score above zero
ScoringPositions == {n \in 1..Len(EffectivePool) : Scored(uData[EffectivePool[n]])}

ScoreOf(t) == Score(uData[t])

\* C25: when at least one candidate scores above zero the scorer returns at
\* most topN symbols, all with a score above zero, in non-increasing score
\* order, and no candidate left out has a higher score than one returned; a
\* candidate whose data retrieval fails or returns nothing is skipped and
\* the scan goes on, so a scoring candidate is left out only when topN
\* symbols are returned.
C25_ScorerRanking ==
    (uPc = "scored" /\ ~NoneScored) =>
        /\ Len(uDynamic) <= uTopN
        /\ Len(uDynamic) >= 1
        /\ \A n \in 1..Len(uDynamic) :
              /\ uDynamic[n] \in Range(EffectivePool)
              /\ Scored(uData[uDynamic[n]])
        /\ \A a, b \in 1..Len(uDynamic) :
              a < b => ScoreOf(uDynamic[a]) >= ScoreOf(uDynamic[b])
        /\ \A t \in Range(EffectivePool) \ Range(uDynamic) :
              Scored(uData[t]) =>
                 /\ Len(uDynamic) = uTopN
                 /\ \A n \in 1..Len(uDynamic) : ScoreOf(t) <= ScoreOf(uDynamic[n])
        /\ Len(uDynamic) = IF Cardinality(ScoringPositions) < uTopN
                             THEN Cardinality(ScoringPositions) ELSE uTopN

\* C25 witness: of two scoring candidates the second of the pool, with the
\* higher score, is the one returned for topN = 1
C25_Witness ==
    /\ uPc = "scored"
    /\ uTopN = 1
    /\ Len(EffectivePool) = 2
    /\ Cardinality(ScoringPositions) = 2
    /\ uDynamic = <<EffectivePool[2]>>
    /\ ScoreOf(EffectivePool[2]) > ScoreOf(EffectivePool[1])

(***************************************************************************)
(* Properties of the heartbeat throttle                                    *)
(***************************************************************************)
IntervalSeconds == HeartbeatIntervalMin * 60

\* C8: a request less than the interval after the recorded heartbeat is
\* suppressed, one more than the interval after it (or with no readable
\* record) is allowed, and no two heartbeats are sent less than the interval
\* apart.
C8_HeartbeatThrottle ==
    /\ hbLast.asked =>
          LET f == hbLast.file
          IN /\ f.state # "ok" => hbLast.allowed
             /\ (f.state = "ok" /\ hbLast.at - f.ts < IntervalSeconds) => ~hbLast.allowed
             /\ (f.state = "ok" /\ hbLast.at - f.ts > IntervalSeconds) => hbLast.allowed
    /\ \A n \in 1..(Len(hbSent) - 1) : hbSent[n + 1] - hbSent[n] >= IntervalSeconds

\* C8 witness: two heartbeats were sent and a later request, made within the
\* interval of the recorded one, was suppressed
C8_Witness ==
    /\ Len(hbSent) >= 2
    /\ hbLast.asked
    /\ ~hbLast.allowed
    /\ hbLast.file.state = "ok"
    /\ hbLast.at - hbLast.file.ts < IntervalSeconds
    /\ hbLast.at - hbLast.file.ts > 0

(***************************************************************************)
(* Fault handling of the run                                               *)
(***************************************************************************)
RunEndedOk == pc = "done" /\ outcome = "ok"

\* the snapshot and the trade log of a run that ended normally with signals
OutputsWritten ==
    signals # <<>> => (snapshot = signals /\ tradeLog = <<OldSignal>> \o signals)

\* C11: a failed write of an output file (signal snapshot, trade log or
\* watchlist snapshot) ends the run as a failure: a run that ended normally
\* has written every one of its output files.
C11_WriteFaultSurfaces ==
    RunEndedOk => (OutputsWritten /\ wlFile = watchlist)

Count(log, site) == Len(SelectSeq(log, LAMBDA f : f = site))

ChatKinds(kind) == Len(SelectSeq(chatMsgs, LAMBDA m : m.kind = kind))

NotifyFaults ==
    Count(faultLog, "sheets") + Count(faultLog, "chat") + Count(faultLog, "pnl")
      + Count(faultLog, "sheet_read") + Count(faultLog, "sheet_update")

\* the chat dispatch points the run has passed
ChatDispatches ==
    IF pc \in {"pnl"} THEN 1
    ELSE IF pc = "eod" THEN 2
    ELSE IF pc = "done" /\ outcome = "ok" /\ signals # <<>> THEN 3
    ELSE 0

PastSheets == pc \in {"highconf", "pnl", "eod"} \/ (RunEndedOk /\ signals # <<>>)

\* C12: a notification channel that is unreachable or rejects the payload at
\* a dispatch point of run (spreadsheet rows, high-confidence alert, tracker
\* update, end-of-day summary) is logged, the dispatch is made once only, and
\* the run still ends normally and returns its signals.
C12_NotifyFaultContained ==
    /\ PastSheets =>
          \/ (sheetRows = signals /\ Count(faultLog, "sheets") = 0)
          \/ (sheetRows = <<>> /\ Count(faultLog, "sheets") = 1)
    /\ ~PastSheets => (sheetRows = <<>> /\ NotifyFaults = 0 /\ chatMsgs = <<>>)
    /\ Len(chatMsgs) + Count(faultLog, "chat") <= ChatDispatches
    /\ \A kind \in {"alert", "summary", "eod"} : ChatKinds(kind) <= 1
    /\ \A site \in {"pnl", "sheet_read", "sheet_update"} : Count(faultLog, site) <= 1
    /\ NotifyFaults > 0 =>
          /\ outcome \in {"none", "ok"}
          /\ pc = "done" => result = signals

\* C12 witness: the run ended normally and returned its signals although the
\* spreadsheet append, the tracker and a chat delivery all failed
C12_Witness ==
    /\ RunEndedOk
    /\ result = signals
    /\ signals # <<>>
    /\ Count(faultLog, "sheets") = 1
    /\ Count(faultLog, "chat") >= 1
    /\ Count(faultLog, "pnl") = 1
    /\ sheetRows = <<>>

(***************************************************************************)
(* Properties of the position tracker                                      *)
(***************************************************************************)
\* the tracker's text for the Stop Hit status
StopHit == "SL Hit"

IsBuy(row) == Upper(row.Side) = "BUY"

TargetReached(row, p) == IF IsBuy(row) THEN p >= row.Target ELSE p <= row.Target

StopReached(row, p) == IF IsBuy(row) THEN p <= row.Stoploss ELSE p >= row.Stoploss

StatusOf(row, p) ==
    IF TargetReached(row, p) THEN "Target Hit"
    ELSE IF StopReached(row, p) THEN StopHit
    ELSE "Open"

\* every report made so far: the passes of the tracker and evaluate_pnl
Reports ==
    {trHist[n] : n \in 1..Len(trHist)}
      \cup (IF trEod.asked /\ ~trEod.skipped
              THEN {[price |-> trEod.price, Result |-> trEod.Result, PnL |-> trEod.PnL]}
              ELSE {})

ExampleRow == [Side |-> "BUY", Entry |-> 10000, Target |-> 10500, Stoploss |-> 9800]

\* C13 as stated: for every observed price, 0 included, the status is Target
\* Hit exactly when the target is reached, Stop Hit when the stop is reached,
\* Open otherwise.
C13_Original ==
    \A h \in Reports : h.price # PriceNaN => h.Result = StatusOf(trRow, h.price)

\* C13: for every signal and every observed price other than 0, the status is
\* Target Hit exactly when the price has reached or passed the target in the
\* favourable direction, otherwise Stop Hit exactly when it has reached or
\* passed the stop-loss, otherwise Open; the tracker reports Open for a price
\* of 0 or a missing price; BUY 100/105/98 gives Target Hit at 106, Stop Hit
\* at 97 and Open at 101.
C13_TrackerStatus ==
    /\ \A h \in Reports :
          h.price \notin {PriceNaN, 0} => h.Result = StatusOf(trRow, h.price)
    /\ \A n \in 1..Len(trHist) :
          trHist[n].price \in {PriceNaN, 0} =>
             (trHist[n].Result = "Open" /\ trHist[n].PnL = 0)
    /\ TrackerCompute(ExampleRow, 10600).Result = "Target Hit"
    /\ TrackerCompute(ExampleRow, 9700).Result = StopHit
    /\ TrackerCompute(ExampleRow, 10100).Result = "Open"

\* C13 witness: two passes reported Target Hit at the target itself and then
\* Stop Hit, and evaluate_pnl reported Open
C13_Witness ==
    /\ Len(trHist) = 2
    /\ trHist[1].Result = "Target Hit" /\ trHist[1].price = trRow.Target
    /\ trHist[2].Result = StopHit
    /\ trEod.asked /\ ~trEod.skipped
    /\ trEod.Result = "Open" /\ trEod.price \notin {PriceNaN, 0}

\* C14: once a pass has reported Target Hit or Stop Hit for a signal, every
\* later pass reports the same status.
C14_TerminalStatus ==
    \A a, b \in 1..Len(trHist) :
        (a < b /\ trHist[a].Result \in {"Target Hit", StopHit}) =>
            trHist[b].Result = trHist[a].Result

\* stop and target on the correct side of entry
WellFormed(row) ==
    IF IsBuy(row)
      THEN row.Stoploss < row.Entry /\ row.Entry < row.Target
      ELSE row.Target < row.Entry /\ row.Entry < row.Stoploss

Favourable(row, p) == IF IsBuy(row) THEN p > row.Entry ELSE p < row.Entry

Against(row, p) == IF IsBuy(row) THEN p < row.Entry ELSE p > row.Entry

Dist(a, b) == IF a < b THEN b - a ELSE a - b

\* the distance from entry the report is about: to the target, to the stop,
\* or to the observed price
ReportedMove(row, h) ==
    IF h.Result = "Target Hit" THEN Dist(row.Target, row.Entry)
    ELSE IF h.Result = StopHit THEN Dist(row.Stoploss, row.Entry)
    ELSE Dist(h.price, row.Entry)

HitPercentages(row, h) ==
    /\ h.Result = "Target Hit" => h.PnL = Pct(Dist(row.Target, row.Entry), row.Entry)
    /\ h.Result = StopHit => h.PnL = 0 - Pct(Dist(row.Stoploss, row.Entry), row.Entry)

\* C20 as stated: for a well-formed signal the reported PnL% is positive when
\* the observed price is on the favourable side of entry and negative when it
\* is on the other side; on Target Hit it is the entry-to-target percentage,
\* on Stop Hit the entry-to-stop percentage.
C20_Original ==
    WellFormed(trRow) =>
        \A h \in Reports :
            h.price # PriceNaN =>
                /\ Favourable(trRow, h.price) => h.PnL > 0
                /\ Against(trRow, h.price) => h.PnL < 0
                /\ HitPercentages(trRow, h)

\* C20: for a well-formed signal and an observed price other than 0, the
\* reported PnL%, rounded to two decimals, is never negative when the price is
\* on the favourable side of entry and never positive when it is on the other
\* side, and it is not zero when the distance it reports is more than 0.005%
\* of entry; on Target Hit it is the entry-to-target percentage and on Stop
\* Hit the entry-to-stop percentage (BUY 100/105/98: +5.0 at 106, -2.0 at 97,
\* +1.0 at 101).
C20_PnlSign ==
    /\ WellFormed(trRow) =>
          \A h \in Reports :
              h.price \notin {PriceNaN, 0} =>
                  /\ Favourable(trRow, h.price) => h.PnL >= 0
                  /\ Against(trRow, h.price) => h.PnL <= 0
                  /\ ReportedMove(trRow, h) * 20000 > trRow.Entry => h.PnL # 0
                  /\ HitPercentages(trRow, h)
    /\ TrackerCompute(ExampleRow, 10600).PnL = 500
    /\ TrackerCompute(ExampleRow, 9700).PnL = 0 - 200
    /\ TrackerCompute(ExampleRow, 10100).PnL = 100
    /\ EvaluatePnl(RowSignal(ExampleRow), 10600).PnL = 500
    /\ EvaluatePnl(RowSignal(ExampleRow), 9700).PnL = 0 - 200
    /\ EvaluatePnl(RowSignal(ExampleRow), 10100).PnL = 100

\* C20 witness: a SELL signal was reported with a gain on Target Hit, with a
\* loss on Stop Hit, and evaluate_pnl reported 0.00 for a favourable move of
\* one hundredth
C20_Witness ==
    /\ WellFormed(trRow) /\ ~IsBuy(trRow)
    /\ Len(trHist) = 2
    /\ trHist[1].Result = "Target Hit" /\ trHist[1].PnL > 0
    /\ trHist[2].Result = StopHit /\ trHist[2].PnL < 0
    /\ trEod.asked /\ ~trEod.skipped
    /\ Favourable(trRow, trEod.price) /\ trEod.PnL = 0

\* the passes of the tracker made at the price evaluate_pnl saw
SamePricePasses == {n \in 1..Len(trHist) : trHist[n].price = trEod.price}

C15_AtMostOneInFlight ==
    Cardinality({i \in 1..Len(srvThreads) : InFlight(i)}) <= 1

(***************************************************************************)
(* Properties of the trade log file                                        *)
(***************************************************************************)
RECURSIVE Flatten(_)
Flatten(ss) == IF ss = <<>> THEN <<>> ELSE Head(ss) \o Flatten(Tail(ss))

\* every field name ever written, in the order the rows were written
AllKeys == Flatten([n \in 1..Len(csvWritten) |-> Keys(csvWritten[n])])

FirstPos(k) == CHOOSE n \in 1..Len(AllKeys) :
                  AllKeys[n] = k /\ \A m \in 1..(n - 1) : AllKeys[m] # k

HasKey(r, k) == \E n \in 1..Len(r) : r[n][1] = k

\* C16: after any sequence of append_csv calls on one file the header is the
\* union of the field names of all rows ever written, in order of first
\* appearance; every row written is present, in order, with its values; and
\* a field a row did not have is empty in that row.
C16_HeaderUnion ==
    /\ ~csvFile.exists => csvWritten = <<>>
    /\ Range(csvFile.header) = Range(AllKeys)
    /\ \A a, b \in 1..Len(csvFile.header) :
          a < b => FirstPos(csvFile.header[a]) < FirstPos(csvFile.header[b])
    /\ Len(csvFile.rows) = Len(csvWritten)
    /\ \A n \in 1..Len(csvFile.rows) :
          /\ Len(csvFile.rows[n]) = Len(csvFile.header)
          /\ \A j \in 1..Len(csvFile.header) :
                LET k == csvFile.header[j]
                IN csvFile.rows[n][j] =
                      IF HasKey(csvWritten[n], k) /\ DictGet(csvWritten[n], k, "") # NoneVal
                        THEN DictGet(csvWritten[n], k, "")
                        ELSE ""

\* C16 witness: the header was widened twice over rows already written, and
\* the first row has an empty cell under a field it never had
C16_Witness ==
    /\ Len(csvWritten) = 3
    /\ Len(csvFile.header) = 3
    /\ Len(csvWritten[1]) = 1
    /\ Len(csvWritten[2]) = 2
    /\ ~HasKey(csvWritten[2], csvFile.header[3])
    /\ csvFile.rows[1][3] = ""
    /\ csvFile.rows[3][3] # ""

(***************************************************************************)
(* Properties of the persisted signal set                                  *)
(***************************************************************************)
NoTradesMarker == [marker |-> "no trades"]

\* C17: after a run that passed the trading-hours gate and ended normally the
\* JSON snapshot holds that run's final signal set, or a single no-trades
\* marker when the run produced no signal; never the signals of an earlier run.
C17_SnapshotIsLatest ==
    RunEndedOk => snapshot = IF signals = <<>> THEN <<NoTradesMarker>> ELSE signals

\* C18: the list a run persists is the output of its reconciliation step, so
\* reconciling it once more gives the same list: it is a reconciliation of
\* itself.
C18_ReconcileIdempotent ==
    Persisted => Reconciled(snapshot, snapshot)

\* position in `signals` of the signal accepted from pair p
Rank(p) ==
    Cardinality({q \in acceptedFrom :
                    q[1] < p[1] \/ (q[1] = p[1] /\ q[2] <= p[2])})

\* C19: a stop-loss or target the strategy omitted is filled with entry - 1.5%
\* and entry + 1.5% for BUY and with entry + 1.5% and entry - 1.5% for SELL;
\* a stop-loss or target the strategy supplied is kept.
C19_DefaultStopTarget ==
    \A p \in acceptedFrom :
        LET raw == behaviour[p[1]][p[2]].sig
            s == signals[Rank(p)]
            up == RoundScaled(raw["Entry"], 1015)
            down == RoundScaled(raw["Entry"], 985)
            buy == raw["Side"] = "BUY"
        IN /\ s["StopLoss"] = IF "StopLoss" \in DOMAIN raw THEN raw["StopLoss"]
                              ELSE IF buy THEN down ELSE up
           /\ s["Target"] = IF "Target" \in DOMAIN raw THEN raw["Target"]
                            ELSE IF buy THEN up ELSE down

(***************************************************************************)
(* Properties of the per-strategy bookkeeping                              *)
(***************************************************************************)
\* run() keeps one list, `signals`; what it records of the strategy a signal
\* came from is the Strategy field written at line 183, which keeps the name
\* the strategy put in its own dict
PerStrategy(sigs, name) == SelectSeq(sigs, LAMBDA s : s["Strategy"] = name)

ModuleNames == {StrategyMods[k].name : k \in 1..NumStrategies}

RECURSIVE SumLen(_, _)
SumLen(sigs, names) ==
    IF names = {} THEN 0
    ELSE LET name == CHOOSE x \in names : TRUE
         IN Len(PerStrategy(sigs, name)) + SumLen(sigs, names \ {name})

\* C21: the run records for each strategy the list of signals accepted from
\* it: the per-strategy lists together hold exactly the signals of the
\* combined list, each under the strategy module it came from.
C21_PerStrategyLists ==
    /\ \A p \in acceptedFrom :
          signals[Rank(p)] \in Range(PerStrategy(signals, StrategyMods[p[2]].name))
    /\ SumLen(signals, ModuleNames) = Len(signals)

(***************************************************************************)
(* Properties of the strategy modules                                      *)
(***************************************************************************)
\* the timeframes a module takes from the view
NeedsFrames(mod) ==
    CASE mod = "macd_crossover" -> {"5m"}
      [] mod = "pivot_srl_breakout" -> {"1d", "5m"}
      [] mod = "orb_trend_filter" -> {"5m"}
      [] mod = "closing_near_highlow" -> {"1d"}
      [] mod = "market_structure_orderblock" -> {"1h"}
      [] OTHER -> {}

\* the fewest bars a module works with
NeedsBars(mod, tf) ==
    CASE mod = "macd_crossover" -> MacdMinBars
      [] mod = "pivot_srl_breakout" -> IF tf = "1d" THEN DailyMinBars ELSE 1
      [] mod = "orb_trend_filter" -> OrbMinBars
      [] mod = "closing_near_highlow" -> DailyMinBars
      [] mod = "market_structure_orderblock" -> OrderBlockMinBars
      [] OTHER -> 0

\* the columns a module reads
ReadsCols(mod, tf) ==
    CASE mod = "macd_crossover" ->
             {"macd", "signal", "ema20", "ema50", "close", "atr", "hist"}
      [] mod = "pivot_srl_breakout" ->
             IF tf = "1d" THEN {"high", "low", "close"} ELSE OHLC
      [] mod = "orb_trend_filter" -> OHLC \cup {"volume"}
      [] OTHER -> OHLC

\* a precondition of the module is not met by the view
Unmet(mod, view) ==
    \E tf \in NeedsFrames(mod) :
        \/ ~view[tf].present
        \/ /\ view[tf].present
           /\ \/ view[tf].rows < NeedsBars(mod, tf)
              \/ view[tf].full < NeedsBars(mod, tf)
              \/ ~(ReadsCols(mod, tf) \subseteq view[tf].cols)
              \/ view[tf].flat

\* C22: for every shipped strategy module and every view, generate_signal
\* returns none and does not raise when a precondition is not met: a
\* timeframe it needs is missing or empty, there are too few bars (also after
\* dropping incomplete bars), a column it reads is missing, or the price
\* range is zero-width.
C22_NoneNotRaise ==
    (stCall.called /\ Unmet(stCall.mod, stView)) => stCall.res = ReturnsNone

(***************************************************************************)
(* Properties of the trading-hours gate                                    *)
(***************************************************************************)
\* Saturday or Sunday, or before 09:15 or after 15:30
OutsideTradingHours(day, minute) ==
    day \in {5, 6} \/ minute < MarketOpenMin \/ minute > MarketCloseMin

\* C23: a run invoked outside trading hours ends at once in CLOSED with an
\* empty result: no strategy is evaluated, and the watchlist file, the signal
\* snapshot, the trade log and both notification channels receive nothing.
C23_ClosedRunFrame ==
    (pc # "idle" /\ OutsideTradingHours(startDay, nowMin)) =>
        /\ pc = "done"
        /\ outcome = "closed"
        /\ trace = <<"CLOSED">>
        /\ result = <<>>
        /\ invoked = {}
        /\ behaviour = <<>>
        /\ signals = <<>>
        /\ wlFile = <<"OLD">>
        /\ snapshot = <<OldSignal>>
        /\ tradeLog = <<OldSignal>>
        /\ sheetRows = <<>>
        /\ chatMsgs = <<>>
        /\ faultLog = <<>>

\* C23 witness: a run invoked on a Sunday at 09:15 ended in CLOSED
C23_Witness ==
    /\ pc = "done"
    /\ outcome = "closed"
    /\ startDay = 6
    /\ nowMin = MarketOpenMin

(***************************************************************************)
(* Properties of strategy discovery                                        *)
(***************************************************************************)
\* the modules of the directory that expose generate_signal
Exposing == {n \in DirNames : ldDir[n].present /\ ldDir[n].imports /\ ldDir[n].gs}

DeclaredBy(n) == IF ldDir[n].req.declared THEN Range(ldDir[n].req.list) ELSE {}

DiscoveredExactly(names) ==
    /\ ~ldResult.raised
    /\ Range(ldResult.mods) = names
    /\ NoDuplicates(ldResult.mods)
    /\ ldResult.indicators = UNION {DeclaredBy(n) : n \in names}

\* C24: discovery returns exactly the modules of the strategy directory that
\* expose generate_signal, a module lacking it being left out without an
\* error, and the aggregated indicator set is exactly the union of the
\* REQUIRED_INDICATORS of the discovered modules, a module with no
\* declaration contributing nothing.
C24_Discovery ==
    ldResult.called => DiscoveredExactly(Exposing)

(***************************************************************************)
(* Properties of concurrent appends to the trade log                       *)
(***************************************************************************)
BothDone == \A i \in Racers : cwThreads[i].pc = "done"

\* the cells of a row handed to append_csv, under the header of the file
AsWritten(r) == WriteRow(csvFile.header, r)

Occurrences(cells) == Cardinality({n \in 1..Len(csvFile.rows) : csvFile.rows[n] = cells})

Handed(cells) == Cardinality({n \in 1..Len(csvWritten) : AsWritten(csvWritten[n]) = cells})

\* C26: when two runs call append_csv on the same trade log concurrently,
\* under every interleaving of their file reads and writes the file ends up
\* holding every row that was in it before and every row of both calls, each
\* exactly once, under a header that is the union of all their fields.
C26_ConcurrentAppend ==
    BothDone =>
        /\ Range(csvFile.header) = Range(AllKeys)
        /\ Len(csvFile.rows) = Len(csvWritten)
        /\ \A n \in 1..Len(csvWritten) :
              Occurrences(AsWritten(csvWritten[n])) = Handed(AsWritten(csvWritten[n]))

(***************************************************************************)
(* Properties of the high-confidence alert                                 *)
(***************************************************************************)
\* positions in `signals` of the signals at or above minConfidence
QualifyingAt(minConfidence) ==
    {n \in 1..Len(signals) : Conf(signals[n]) >= minConfidence}

Qualifying == QualifyingAt(HighConfidence)

Alerts == {n \in 1..Len(chatMsgs) : chatMsgs[n].kind = "alert"}

\* send_high_confidence_trades has returned
PastAlert == pc \in {"pnl", "eod"} \/ (RunEndedOk /\ signals # <<>>)

\* items is a selection of `signals` for the arguments minConfidence and limit
SelectionOk(items, minConfidence, limit) ==
    LET q == QualifyingAt(minConfidence)
        k == Cardinality(q)
    IN  /\ Len(items) <= limit
        /\ Len(items) = IF k < limit THEN k ELSE limit
        /\ \A m \in 1..Len(items) :
              /\ Conf(items[m]) >= minConfidence
              /\ \E n \in q : signals[n] = items[m]
        /\ \A m \in 1..(Len(items) - 1) : Conf(items[m]) >= Conf(items[m + 1])
        /\ \A n \in q :
              \/ \E m \in 1..Len(items) : items[m] = signals[n]
              \/ \A m \in 1..Len(items) : Conf(signals[n]) <= Conf(items[m])

\* C28: the alert holds only signals with confidence >= min_confidence, at
\* most limit of them, in non-increasing confidence order, and no qualifying
\* signal left out has a higher confidence than one included; when no signal
\* qualifies no message is sent. Checked on the message run() sends (0.8, 3)
\* and on the selection for other arguments.
C28_AlertSelection ==
    LET alerts == Alerts
        none == \A n \in 1..Len(signals) : Conf(signals[n]) < HighConfidence
    IN  /\ \A a \in alerts : SelectionOk(chatMsgs[a].items, HighConfidence, AlertLimit)
        /\ Cardinality(alerts) <= 1
        /\ none => alerts = {}
        /\ (pc = "pnl" /\ none) => (chatMsgs = <<>> /\ Count(faultLog, "chat") = 0)
        /\ (pc = "pnl" /\ ~none) => (alerts # {} \/ Count(faultLog, "chat") = 1)
        /\ ~PastAlert => alerts = {}
        /\ pc = "highconf" =>
              \A minConfidence \in {DefaultThreshold, 90}, limit \in {1, 2} :
                 SelectionOk(HighConfSelect(signals, minConfidence, limit),
                             minConfidence, limit)

\* C28 witness: four signals qualify, the alert holds three of them, and it
\* starts with a signal that is not the first qualifying one of the list
C28_Witness ==
    /\ Cardinality(Qualifying) = 4
    /\ \E a \in Alerts :
          /\ Len(chatMsgs[a].items) = AlertLimit
          /\ Conf(chatMsgs[a].items[1]) > Conf(signals[1])
          /\ Conf(chatMsgs[a].items[AlertLimit]) < Conf(chatMsgs[a].items[1])

====
